---------------------------- MODULE Spec2Model ----------------------------
(***************************************************************************)
(* Model of nominatim/api/logging.py: the context-scoped debug logger      *)
(* (ContextVar `logger`, set_log_output, log, get_and_disable) and the     *)
(* three logger classes BaseLogger, HTMLLogger and TextLogger.             *)
(*                                                                         *)
(* Text is modelled as a sequence of tokens (strings); concatenation of    *)
(* text is \o of token sequences.  Characters that html.escape rewrites    *)
(* are always tokens of their own.  Every call of _write appends one       *)
(* chunk to the buffer of the logger: the text written plus the event      *)
(* (task, step) that wrote it.                                             *)
(***************************************************************************)
EXTENDS Integers, Sequences, FiniteSets, TLC

VARIABLES
    logger,          \* the ContextVar: the logger object of every task's context
    steps,           \* number of calls every task has made so far
    last,            \* what the most recent call did and returned
    fmt,             \* history: the argument of every task's latest set_log_output
    ops,             \* history: the names of every task's latest three calls
    discarded,       \* history: chunks in the buffers that set_log_output replaced
    CODE_HIGHLIGHT,  \* pygments could be imported (fixed at import time)
    sa_version       \* first character of sa.__version__ (fixed at import time)

vars == <<logger, steps, last, fmt, ops, discarded, CODE_HIGHLIGHT, sa_version>>

---------------------------------------------------------------------------
(* Bounds of the model.                                                    *)

\* number of calls over all tasks in the two-task specification
MaxSteps == 5

\* number of calls of the single task in the operations specification
MaxOps == 3

\* tasks (requests) running concurrently, each in its own context
Tasks == {1, 2}

---------------------------------------------------------------------------
(* Python values handed to the loggers: the type, the text that str()     *)
(* gives, and the text that to_wkt() gives where the value has one.        *)

PyNone == [type |-> "NoneType", s |-> <<"None">>, wkt |-> <<>>]

PyInt(tok) == [type |-> "int", s |-> <<tok>>, wkt |-> <<>>]

PyStr(toks) == [type |-> "str", s |-> toks, wkt |-> <<>>]

\* an object without a __str__ of its own, such as <Obj>
PyObj(tok) == [type |-> "object", s |-> <<"<", tok, ">">>, wkt |-> <<>>]

\* a geometry: an object that has a to_wkt() method
PyGeom(tok, wkt) == [type |-> "geom", s |-> <<"<", tok, ">">>, wkt |-> wkt]

\* str(v)
str(v) == v.s

\* repr(v): a str is shown in quotes
repr(v) ==
    IF v.type = "str" THEN <<"'">> \o v.s \o <<"'">> ELSE v.s

\* html.escape(s) with quote=True, token by token
html_escape_token(tok) ==
    CASE tok = "&" -> "&amp;"
      [] tok = "<" -> "&lt;"
      [] tok = ">" -> "&gt;"
      [] tok = "\"" -> "&quot;"
      [] tok = "'" -> "&#x27;"
      [] OTHER -> tok

html_escape(s) == [i \in DOMAIN s |-> html_escape_token(s[i])]

\* pygments.highlight(code, lexer, HtmlFormatter(nowrap=True)): the code,
\* escaped, inside the span markup that pygments produces
highlight(s, lexer) == <<"<span class=\"" \o lexer \o "\">">> \o html_escape(s) \o <<"</span>">>

---------------------------------------------------------------------------
(* Logger objects.  BaseLogger has no buffer; the field is kept empty.     *)

\* an event is identified by the task that makes the call and the number of
\* the call within that task; <<0, 0>> is module import
NoEvent == <<0, 0>>

\* a piece of text in a buffer: the text, the event that wrote it and how
\* many elements the method had taken from its iterator when it wrote it
ChunkAt(text, src, taken) == [text |-> text, src |-> src, taken |-> taken]

Chunk(text, src) == ChunkAt(text, src, 0)

BaseLogger(id) == [cls |-> "BaseLogger", id |-> id, buffer |-> <<>>]

HTMLLogger(id) == [cls |-> "HTMLLogger", id |-> id, buffer |-> <<>>]

TextLogger(id) == [cls |-> "TextLogger", id |-> id, buffer |-> <<>>]

\* the style rules of pygments are part of the header when it was imported
HTML_HEADER ==
    <<"<!DOCTYPE html>\n<html>\n<head>\n  <title>Nominatim - Debug</title>\n  <style>\n">>
    \o (IF CODE_HIGHLIGHT THEN <<"get_style_defs('.highlight')">> ELSE <<>>)
    \o <<"\n    h2 { font-size: x-large }\n", "  </style>\n</head>\n<body>\n">>

HTML_FOOTER == <<"</body></html>">>

\* the result of running a method on a logger: the logger afterwards, the
\* exception that ended the method ("" when it returned), how many elements
\* it took from the iterator it was given, and how often it called the
\* callable it was given
Run(self) == [self |-> self, raised |-> "", consumed |-> 0, invoked |-> 0]

\* mutant: the buffer is written from its start (as after seek(0))
_write_over(r, text, src) ==
    IF r.raised # "" THEN r
    ELSE [r EXCEPT !.self.buffer = <<ChunkAt(text, src, r.consumed)>>]

\* HTMLLogger._write / TextLogger._write: self.buffer.write(text)
\* (a method that has raised writes no more)
_write(r, text, src) ==
    IF r.raised # "" THEN r
    ELSE [r EXCEPT !.self.buffer = Append(@, ChunkAt(text, src, r.consumed))]

\* mutant: a method that raises leaves nothing in the buffer
Raise_undo(r, exc) ==
    IF r.raised # "" THEN r ELSE [r EXCEPT !.raised = exc, !.self.buffer = <<>>]

\* raise exc: the method ends here, what it has written stays written
Raise(r, exc) == IF r.raised # "" THEN r ELSE [r EXCEPT !.raised = exc]

\* HTMLLogger._timestamp / TextLogger._timestamp; dt.datetime.now() is the
\* token "now"
_timestamp(r, src) ==
    IF r.self.cls = "HTMLLogger"
    THEN _write(r, <<"<p class=\"timestamp\">[", "now", "]</p>">>, src)
    ELSE _write(r, <<"[", "now", "]\n">>, src)

\* mutant: HTMLLogger.get_buffer returns the buffer without the document
\* around it
get_buffer_bare(self) ==
    IF self.cls = "BaseLogger" THEN <<>> ELSE self.buffer

\* mutant: the document is not closed
get_buffer_no_footer(self) ==
    CASE self.cls = "HTMLLogger" -> <<Chunk(HTML_HEADER, NoEvent)>> \o self.buffer
      [] self.cls = "TextLogger" -> self.buffer
      [] OTHER -> <<>>

\* get_buffer of the three classes: the text returned, as chunks
get_buffer(self) ==
    CASE self.cls = "HTMLLogger" ->
            <<Chunk(HTML_HEADER, NoEvent)>> \o self.buffer \o <<Chunk(HTML_FOOTER, NoEvent)>>
      [] self.cls = "TextLogger" -> self.buffer
      [] OTHER -> <<>>

\* HTMLLogger._python_var / TextLogger._python_var
_python_var(self, var) ==
    CASE self.cls = "HTMLLogger" /\ CODE_HIGHLIGHT ->
            <<"<div class=\"highlight\"><code class=\"lang-python\">">>
            \o highlight(str(var), "PythonLexer") \o <<"</code></div>">>
      [] self.cls = "HTMLLogger" /\ ~CODE_HIGHLIGHT ->
            <<"<code class=\"lang-python\">">> \o html_escape(str(var)) \o <<"</code>">>
      [] OTHER -> str(var)

\* several calls of _write in a row, one chunk per text
WriteAll(r, texts, src) ==
    IF r.raised # "" THEN r
    ELSE [r EXCEPT !.self.buffer =
                @ \o [i \in DOMAIN texts |-> ChunkAt(texts[i], src, r.consumed)]]

\* the texts of several sequences, one after the other
RECURSIVE Flatten(_)
Flatten(seqs) ==
    IF seqs = <<>> THEN <<>> ELSE Head(seqs) \o Flatten(Tail(seqs))

\* a for loop over an iterator: the elements are taken one at a time, and
\* the body writes the texts of an element before the next one is taken;
\* groups holds the texts per element, and the first element of groups is
\* element number first of the iterator
RECURSIVE WriteEach(_, _, _, _)
WriteEach(r, groups, first, src) ==
    IF groups = <<>> \/ r.raised # "" THEN r
    ELSE WriteEach(WriteAll([r EXCEPT !.consumed = first], Head(groups), src),
                   Tail(groups), first + 1, src)

---------------------------------------------------------------------------
(* HTMLLogger: function, section, comment, var_dump.                       *)
(* kwargs is a sequence of records [name, value]; var is a record          *)
(* [callable, value]: a callable returns value when it is called.          *)

HTMLLogger_function(self, func, kwargs, src) ==
    LET r1 == _timestamp(Run(self), src)
        r2 == _write(r1, <<"<h1>Debug output for ", func, "()</h1>\n<p>Parameters:<dl>">>, src)
        r3 == WriteAll(r2, [i \in DOMAIN kwargs |->
                              <<"<dt>", kwargs[i].name, "</dt><dd>">>
                              \o _python_var(self, kwargs[i].value) \o <<"</dd>">>], src)
    IN  _write(r3, <<"</dl></p>">>, src)

HTMLLogger_section(self, heading, src) ==
    _write(_timestamp(Run(self), src), <<"<h2>", heading, "</h2>">>, src)

\* mutant: the comment is written before the timestamp
HTMLLogger_comment_late(self, text, src) ==
    _timestamp(_write(Run(self), <<"<p>", text, "</p>">>, src), src)

HTMLLogger_comment(self, text, src) ==
    _write(_timestamp(Run(self), src), <<"<p>", text, "</p>">>, src)

\* mutant: the callable is not called; it is written itself
HTMLLogger_var_dump_no_call(self, heading, var, src) ==
    LET r1 == _timestamp(Run(self), src)
        shown == IF var.callable THEN PyObj("function") ELSE var.value
    IN  _write(r1, <<"<h5>", heading, "</h5>">> \o _python_var(self, shown), src)

HTMLLogger_var_dump(self, heading, var, src) ==
    LET r1 == _timestamp(Run(self), src)
        r2 == IF var.callable THEN [r1 EXCEPT !.invoked = @ + 1] ELSE r1
    IN  _write(r2, <<"<h5>", heading, "</h5>">> \o _python_var(self, var.value), src)

---------------------------------------------------------------------------
(* TextLogger: function, section, comment, var_dump.                       *)

TextLogger_function(self, func, kwargs, src) ==
    LET r1 == _write(Run(self), <<"#### Debug output for ", func, "()\n\nParameters:\n">>, src)
        r2 == WriteAll(r1, [i \in DOMAIN kwargs |->
                              <<"  ", kwargs[i].name, ": ">>
                              \o _python_var(self, kwargs[i].value) \o <<"\n">>], src)
    IN  _write(r2, <<"\n">>, src)

TextLogger_section(self, heading, src) ==
    _write(_timestamp(Run(self), src), <<"\n# ", heading, "\n\n">>, src)

TextLogger_comment(self, text, src) ==
    _write(Run(self), <<text, "\n">>, src)

TextLogger_var_dump(self, heading, var, src) ==
    LET r1 == IF var.callable THEN [Run(self) EXCEPT !.invoked = @ + 1] ELSE Run(self)
    IN  _write(r1, <<heading, ":\n  ">> \o _python_var(self, var.value) \o <<"\n\n">>, src)

---------------------------------------------------------------------------
(* table_dump.  rows is what the iterator yields: a sequence of records    *)
(* [none, cells]; none is TRUE for None, and cells are the values of a     *)
(* list.                                                                   *)

\* len(s) of a text
RECURSIVE StrLen(_)
StrLen(s) == IF s = <<>> THEN 0 ELSE Len(Head(s)) + StrLen(Tail(s))

\* ch * n
RECURSIVE Rep(_, _)
Rep(ch, n) == IF n <= 0 THEN "" ELSE ch \o Rep(ch, n - 1)

RECURSIVE Sum(_)
Sum(ns) == IF ns = <<>> THEN 0 ELSE Head(ns) + Sum(Tail(ns))

Max(S) == CHOOSE m \in S : \A n \in S : n <= m

\* '{:<l}'.format(s)
Pad(s, l) == IF StrLen(s) < l THEN s \o <<Rep(" ", l - StrLen(s))>> ELSE s

\* ' | '.join(texts)
RECURSIVE Join(_, _)
Join(sep, texts) ==
    IF texts = <<>> THEN <<>>
    ELSE IF Len(texts) = 1 THEN Head(texts)
    ELSE Head(texts) \o <<sep>> \o Join(sep, Tail(texts))

\* mutant: the last row of the iterator is not written
HTMLLogger_table_dump_short(self, heading, rows, src) ==
    LET r1 == _timestamp(Run(self), src)
    IN  IF rows = <<>> THEN Raise(r1, "StopIteration")
        ELSE
        LET head == rows[1]
            r2 == [r1 EXCEPT !.consumed = 1]
        IN  IF head.none \/ head.cells = <<>> THEN Raise(r2, "AssertionError")
            ELSE
            LET r3 == _write(r2, <<"<table><thead><tr><th colspan=\"", ToString(Len(head.cells)),
                                   "\">", heading, "</th></tr><tr>">>, src)
                r4 == WriteAll(r3, [i \in DOMAIN head.cells |->
                                      <<"<th>">> \o str(head.cells[i]) \o <<"</th>">>], src)
                r5 == _write(r4, <<"</tr></thead><tbody>">>, src)
                body == [k \in 1..(Len(rows) - 2) |->
                            LET row == rows[k + 1]
                            IN  IF row.none THEN <<>>
                                ELSE <<(<<"<tr>">>)>>
                                     \o [i \in DOMAIN row.cells |->
                                            <<"<td>">> \o str(row.cells[i]) \o <<"</td>">>]
                                     \o <<(<<"</tr>">>)>>]
                r6 == WriteAll([r5 EXCEPT !.consumed = Len(rows)], Flatten(body), src)
            IN  _write(r6, <<"</tbody></table>">>, src)

\* mutant: all rows are taken from the iterator before the first is written
HTMLLogger_table_dump_list(self, heading, rows, src) ==
    LET r1 == _timestamp(Run(self), src)
    IN  IF rows = <<>> THEN Raise(r1, "StopIteration")
        ELSE
        LET head == rows[1]
            r2 == [r1 EXCEPT !.consumed = 1]
        IN  IF head.none \/ head.cells = <<>> THEN Raise(r2, "AssertionError")
            ELSE
            LET r3 == _write(r2, <<"<table><thead><tr><th colspan=\"", ToString(Len(head.cells)),
                                   "\">", heading, "</th></tr><tr>">>, src)
                r4 == WriteAll(r3, [i \in DOMAIN head.cells |->
                                      <<"<th>">> \o str(head.cells[i]) \o <<"</th>">>], src)
                r5 == _write(r4, <<"</tr></thead><tbody>">>, src)
                body == [k \in 1..(Len(rows) - 1) |->
                            LET row == rows[k + 1]
                            IN  IF row.none THEN <<>>
                                ELSE <<(<<"<tr>">>)>>
                                     \o [i \in DOMAIN row.cells |->
                                            <<"<td>">> \o str(row.cells[i]) \o <<"</td>">>]
                                     \o <<(<<"</tr>">>)>>]
                r6 == WriteAll([r5 EXCEPT !.consumed = Len(rows)], Flatten(body), src)
            IN  _write(r6, <<"</tbody></table>">>, src)

HTMLLogger_table_dump(self, heading, rows, src) ==
    LET r1 == _timestamp(Run(self), src)
    IN  IF rows = <<>> THEN Raise(r1, "StopIteration")
        ELSE
        LET head == rows[1]
            r2 == [r1 EXCEPT !.consumed = 1]
        IN  IF head.none \/ head.cells = <<>> THEN Raise(r2, "AssertionError")
            ELSE
            LET r3 == _write(r2, <<"<table><thead><tr><th colspan=\"", ToString(Len(head.cells)),
                                   "\">", heading, "</th></tr><tr>">>, src)
                r4 == WriteAll(r3, [i \in DOMAIN head.cells |->
                                      <<"<th>">> \o str(head.cells[i]) \o <<"</th>">>], src)
                r5 == _write(r4, <<"</tr></thead><tbody>">>, src)
                body == [k \in 1..(Len(rows) - 1) |->
                            LET row == rows[k + 1]
                            IN  IF row.none THEN <<>>
                                ELSE <<(<<"<tr>">>)>>
                                     \o [i \in DOMAIN row.cells |->
                                            <<"<td>">> \o str(row.cells[i]) \o <<"</td>">>]
                                     \o <<(<<"</tr>">>)>>]
                r6 == WriteEach(r5, body, 2, src)
            IN  _write(r6, <<"</tbody></table>">>, src)

\* mutant: a row that is None is skipped, as in HTMLLogger.table_dump
TextLogger_table_dump_skips(self, heading, rows, src) ==
    LET r1 == [_write(Run(self), <<heading, ":\n">>, src) EXCEPT !.consumed = Len(rows)]
        data == [k \in DOMAIN rows |->
                    IF rows[k].none \/ rows[k].cells = <<>> THEN <<>>
                    ELSE [i \in DOMAIN rows[k].cells |-> _python_var(self, rows[k].cells[i])]]
    IN  IF data = <<>> THEN Raise(r1, "IndexError")
        ELSE IF data[1] = <<>> THEN Raise(r1, "AssertionError")
        ELSE
        LET num_cols == Len(data[1])
            lists == {k \in DOMAIN data : data[k] # <<>>}
        IN  IF \E k \in lists : Len(data[k]) < num_cols THEN Raise(r1, "IndexError")
            ELSE
            LET maxlens == [i \in 1..num_cols |-> Max({StrLen(data[k][i]) : k \in lists})]
                tablewidth == Sum(maxlens) + 3 * num_cols + 1
                line == <<Rep("-", tablewidth), "\n">>
                row_format(d) == <<"| ">> \o Join(" | ", [i \in 1..num_cols |-> Pad(d[i], maxlens[i])])
                                 \o <<" |\n">>
                r2 == WriteAll(r1, <<line, row_format(data[1]), line>>, src)
                r3 == WriteAll(r2, Flatten([k \in 1..(Len(data) - 1) |->
                                      IF data[k + 1] # <<>> THEN <<row_format(data[k + 1])>>
                                      ELSE <<>>]), src)
            IN  IF data[Len(data)] # <<>> THEN _write(r3, line, src) ELSE r3

TextLogger_table_dump(self, heading, rows, src) ==
    LET r1 == [_write(Run(self), <<heading, ":\n">>, src) EXCEPT !.consumed = Len(rows)]
        \* None stands as the empty sequence: a list in data is never empty
        data == [k \in DOMAIN rows |->
                    IF rows[k].none \/ rows[k].cells = <<>> THEN <<>>
                    ELSE [i \in DOMAIN rows[k].cells |-> _python_var(self, rows[k].cells[i])]]
    IN  IF data = <<>> THEN Raise(r1, "IndexError")
        ELSE IF data[1] = <<>> THEN Raise(r1, "AssertionError")
        ELSE
        LET num_cols == Len(data[1])
            lists == {k \in DOMAIN data : data[k] # <<>>}
        IN  IF \E k \in lists : Len(data[k]) < num_cols THEN Raise(r1, "IndexError")
            ELSE
            LET maxlens == [i \in 1..num_cols |-> Max({StrLen(data[k][i]) : k \in lists})]
                tablewidth == Sum(maxlens) + 3 * num_cols + 1
                line == <<Rep("-", tablewidth), "\n">>
                row_format(d) == <<"| ">> \o Join(" | ", [i \in 1..num_cols |-> Pad(d[i], maxlens[i])])
                                 \o <<" |\n">>
                r2 == WriteAll(r1, <<line, row_format(data[1]), line>>, src)
                r3 == WriteAll(r2, [k \in 1..(Len(data) - 1) |->
                                      IF data[k + 1] # <<>> THEN row_format(data[k + 1]) ELSE line], src)
            IN  IF data[Len(data)] # <<>> THEN _write(r3, line, src) ELSE r3

---------------------------------------------------------------------------
(* result_dump.  results is what the iterator yields: a sequence of        *)
(* records [rank, res].  Numbers are fixed-point: rank counts thousandths  *)
(* and importance hundred-thousandths.  res has the fields                 *)
(*   names          sequence of [key, value], the dict in its order        *)
(*   housenumber    [none, v]                                              *)
(*   source_table   the name of the table                                  *)
(*   category       the two strings of the category                        *)
(*   rank_address, country_code   tokens                                   *)
(*   osm_object     <<>> for None, else <<type, id>>                       *)
(*   importance     [none, v]                                              *)

\* f'{x:.<digits>f}' of the number n / 10^digits
Fixed(n, digits, unit) ==
    LET a == IF n < 0 THEN -n ELSE n
        frac == ToString(a % unit)
    IN  (IF n < 0 THEN "-" ELSE "") \o ToString(a \div unit) \o "."
        \o Rep("0", digits - Len(frac)) \o frac

_debug_name(res) ==
    IF res.names # <<>>
    THEN IF \E i \in DOMAIN res.names : res.names[i].key = "name"
         THEN LET i == CHOOSE i \in DOMAIN res.names : res.names[i].key = "name"
              IN  res.names[i].value
         ELSE res.names[1].value
    ELSE IF ~res.housenumber.none THEN "Hnr " \o res.housenumber.v ELSE "[NONE]"

\* the inner function format_osm of HTMLLogger.result_dump
format_osm(osm_object) ==
    IF osm_object = <<>> THEN <<"-">>
    ELSE LET t == osm_object[1]
             i == osm_object[2]
             fullt == CASE t = "N" -> "node" [] t = "W" -> "way" [] t = "R" -> "relation" [] OTHER -> ""
         IN  IF fullt = "" THEN <<t, i>>
             ELSE <<"<a href=\"https://www.openstreetmap.org/", fullt, "/", i, "\">", t, i, "</a>">>

\* mutant: the total misses the last result
HTMLLogger_result_dump_total(self, heading, results, src) ==
    LET r1 == _timestamp(Run(self), src)
        r2 == _write(r1, <<"<h5>", heading, "</h5><p><dl>">>, src)
        item(k) ==
            LET rank == results[k].rank
                res == results[k].res
            IN  << <<"<dt>[", Fixed(rank, 3, 1000), "]</dt>  <dd>", res.source_table, "(">>,
                   <<_debug_name(res), ", type=(", res.category[1], ",", res.category[2], "), ">>,
                   <<"rank=", res.rank_address, ", ">>,
                   <<"osm=">> \o format_osm(res.osm_object) \o <<", ">>,
                   <<"cc=", res.country_code, ", ">>,
                   <<"importance=",
                     IF res.importance.none \/ res.importance.v = 0 THEN "nan"
                     ELSE Fixed(res.importance.v, 5, 100000),
                     ")</dd>">> >>
        r3 == WriteAll([r2 EXCEPT !.consumed = Len(results)],
                       Flatten([k \in DOMAIN results |-> item(k)]), src)
        total == IF results = <<>> THEN 0 ELSE Len(results) - 1
    IN  _write(r3, <<"</dl><b>TOTAL:</b> ", ToString(total), "</p>">>, src)

HTMLLogger_result_dump(self, heading, results, src) ==
    LET r1 == _timestamp(Run(self), src)
        r2 == _write(r1, <<"<h5>", heading, "</h5><p><dl>">>, src)
        item(k) ==
            LET rank == results[k].rank
                res == results[k].res
            IN  << <<"<dt>[", Fixed(rank, 3, 1000), "]</dt>  <dd>", res.source_table, "(">>,
                   <<_debug_name(res), ", type=(", res.category[1], ",", res.category[2], "), ">>,
                   <<"rank=", res.rank_address, ", ">>,
                   <<"osm=">> \o format_osm(res.osm_object) \o <<", ">>,
                   <<"cc=", res.country_code, ", ">>,
                   <<"importance=",
                     IF res.importance.none \/ res.importance.v = 0 THEN "nan"
                     ELSE Fixed(res.importance.v, 5, 100000),
                     ")</dd>">> >>
        r3 == WriteEach(r2, [k \in DOMAIN results |-> item(k)], 1, src)
        total == Len(results)
    IN  _write(r3, <<"</dl><b>TOTAL:</b> ", ToString(total), "</p>">>, src)

TextLogger_result_dump(self, heading, results, src) ==
    LET r1 == _timestamp(Run(self), src)
        r2 == _write(r1, <<heading, ":\n">>, src)
        item(k) ==
            LET rank == results[k].rank
                res == results[k].res
            IN  << <<"[", Fixed(rank, 3, 1000), "]  ", res.source_table, "(">>,
                   <<_debug_name(res), ", type=(", res.category[1], ",", res.category[2], "), ">>,
                   <<"rank=", res.rank_address, ", ">>,
                   <<"osm=">> \o res.osm_object \o <<", ">>,
                   <<"cc=", res.country_code, ", ">>,
                   <<"importance=",
                     IF res.importance.none \/ res.importance.v = 0
                     THEN Fixed(-100000, 5, 100000)
                     ELSE Fixed(res.importance.v, 5, 100000),
                     ")\n">> >>
        r3 == WriteEach(r2, [k \in DOMAIN results |-> item(k)], 1, src)
        total == Len(results)
    IN  _write(r3, <<"TOTAL: ", ToString(total), "\n\n">>, src)

---------------------------------------------------------------------------
(* format_sql.                                                             *)
(* conn is [dialect]; statement is what compile() gives for it:            *)
(*   text          str(compiled), as tokens                                *)
(*   params        compiled.params, a function from names to values        *)
(*   positiontup   compiled.positiontup, a sequence of names               *)
(* extra_params is [kind, maps]: kind "none" (None), "mapping" (maps holds *)
(* the one mapping) or "sequence" (maps holds the mappings of the list).   *)
(* Tokens of a statement text: "%" is a percent sign before a character    *)
(* that starts no format specifier; "%%" a doubled percent sign; "%s" a    *)
(* positional                                                              *)
(* specifier; "%(", name, ")s" a named specifier; "__[POSTCOMPILE_", name, *)
(* "]" a postcompile marker; "?" a question mark.                          *)

Result(raised, value) == [raised |-> raised, value |-> value]

\* params.get(name, None)
Get(params, name) == IF name \in DOMAIN params THEN params[name] ELSE PyNone

\* re.sub(r'__\[POSTCOMPILE_([^]]*)\]', repl, sqlstr) for the three
\* replacements '%s', r'%(\1)s' and '?'
RECURSIVE sub_postcompile(_, _)
sub_postcompile(repl, sqlstr) ==
    IF sqlstr = <<>> THEN <<>>
    ELSE IF Head(sqlstr) = "__[POSTCOMPILE_" /\ Len(sqlstr) >= 3 /\ sqlstr[3] = "]"
    THEN (IF repl = "%(\\1)s" THEN <<"%(", sqlstr[2], ")s">> ELSE <<repl>>)
         \o sub_postcompile(repl, SubSeq(sqlstr, 4, Len(sqlstr)))
    ELSE <<Head(sqlstr)>> \o sub_postcompile(repl, Tail(sqlstr))

\* re.sub(r'%(?!\()', '%%', sqlstr): every percent sign that is not
\* followed by "(" is doubled
sub_percent_token(tok) ==
    CASE tok = "%" -> "%%"
      [] tok = "%%" -> "%%%%"
      [] tok = "%s" -> "%%s"
      [] OTHER -> tok

sub_percent(sqlstr) == [i \in DOMAIN sqlstr |-> sub_percent_token(sqlstr[i])]

\* sqlstr % args for a tuple args of texts, from token k of sqlstr on with
\* the arguments before number a used up
RECURSIVE format_tuple(_, _, _)
format_tuple(sqlstr, args, a) ==
    IF sqlstr = <<>>
    THEN IF a <= Len(args) THEN Result("TypeError", <<>>) ELSE Result("", <<>>)
    ELSE
    LET tok == Head(sqlstr)
    IN  CASE tok = "%s" ->
                IF a > Len(args) THEN Result("TypeError", <<>>)
                ELSE LET rest == format_tuple(Tail(sqlstr), args, a + 1)
                     IN  Result(rest.raised, args[a] \o rest.value)
          [] tok = "%(" -> Result("TypeError", <<>>)
          [] tok = "%" -> Result("ValueError", <<>>)
          [] OTHER ->
                LET rest == format_tuple(Tail(sqlstr), args, a)
                    out == CASE tok = "%%" -> "%"
                             [] tok = "%%s" -> "%s"
                             [] tok = "%%%%" -> "%%"
                             [] OTHER -> tok
                IN  Result(rest.raised, <<out>> \o rest.value)

\* sqlstr % params for a dict params
RECURSIVE format_dict(_, _)
format_dict(sqlstr, params) ==
    IF sqlstr = <<>> THEN Result("", <<>>)
    ELSE
    LET tok == Head(sqlstr)
    IN  CASE tok = "%(" ->
                IF sqlstr[2] \notin DOMAIN params THEN Result("KeyError", <<>>)
                ELSE LET rest == format_dict(SubSeq(sqlstr, 4, Len(sqlstr)), params)
                     IN  Result(rest.raised, str(params[sqlstr[2]]) \o rest.value)
          [] tok = "%" -> Result("ValueError", <<>>)
          [] tok = "%s" ->
                \* the whole dict is the one positional argument
                LET rest == format_dict(Tail(sqlstr), params)
                IN  Result(rest.raised, <<"{...}">> \o rest.value)
          [] OTHER ->
                LET rest == format_dict(Tail(sqlstr), params)
                    out == CASE tok = "%%" -> "%"
                             [] tok = "%%s" -> "%s"
                             [] tok = "%%%%" -> "%%"
                             [] OTHER -> tok
                IN  Result(rest.raised, <<out>> \o rest.value)

\* mutant: the iterator is not advanced, every question mark gets the same
\* value
RECURSIVE sub_qmark_same(_, _, _)
sub_qmark_same(sqlstr, args, a) ==
    IF sqlstr = <<>> THEN Result("", <<>>)
    ELSE IF Head(sqlstr) = "?"
    THEN IF a > Len(args) THEN Result("StopIteration", <<>>)
         ELSE LET rest == sub_qmark_same(Tail(sqlstr), args, a)
              IN  Result(rest.raised, args[a] \o rest.value)
    ELSE LET rest == sub_qmark_same(Tail(sqlstr), args, a)
         IN  Result(rest.raised, <<Head(sqlstr)>> \o rest.value)

\* re.sub(r"\?", lambda m: next(pparams), sqlstr): pparams yields the
\* texts of args from number a on
RECURSIVE sub_qmark(_, _, _)
sub_qmark(sqlstr, args, a) ==
    IF sqlstr = <<>> THEN Result("", <<>>)
    ELSE IF Head(sqlstr) = "?"
    THEN IF a > Len(args) THEN Result("StopIteration", <<>>)
         ELSE LET rest == sub_qmark(Tail(sqlstr), args, a + 1)
              IN  Result(rest.raised, args[a] \o rest.value)
    ELSE LET rest == sub_qmark(Tail(sqlstr), args, a)
         IN  Result(rest.raised, <<Head(sqlstr)>> \o rest.value)

\* mutant: the working map starts empty, without the values of the compiled
\* statement
format_sql_empty(conn, statement, extra_params) ==
    LET compiled == statement
        update ==
            CASE extra_params.kind = "mapping" ->
                    LET m == extra_params.maps[1]
                    IN  [k \in DOMAIN m |->
                            IF m[k].type = "geom" THEN PyStr(m[k].wkt)
                            ELSE IF m[k].type \in {"int", "float"} THEN m[k]
                            ELSE PyStr(str(m[k]))]
              [] extra_params.kind = "sequence" /\ extra_params.maps # <<>> ->
                    [k \in DOMAIN extra_params.maps[1] |-> PyStr(<<":" \o k>>)]
              [] OTHER -> [k \in {} |-> PyNone]
        params == update
        sqlstr == compiled.text
        pparams == [i \in DOMAIN compiled.positiontup |->
                       repr(Get(params, compiled.positiontup[i]))]
    IN  IF conn.dialect = "postgresql"
        THEN IF sa_version = "1"
             THEN LET sqlstr1 == sub_postcompile("%s", sqlstr)
                      res == format_tuple(sqlstr1, pparams, 1)
                  IN  IF res.raised = "TypeError" THEN Result("", sqlstr1) ELSE res
             ELSE LET sqlstr1 == sub_percent(sqlstr)
                      sqlstr2 == sub_postcompile("%(\\1)s", sqlstr1)
                  IN  format_dict(sqlstr2, params)
        ELSE IF conn.dialect # "sqlite" THEN Result("AssertionError", <<>>)
        ELSE sub_qmark(sub_postcompile("?", sqlstr), pparams, 1)


\* mutant: a number of the mapping is turned into its text like any other
\* value
format_sql_all_str(conn, statement, extra_params) ==
    LET compiled == statement
        update ==
            CASE extra_params.kind = "mapping" ->
                    LET m == extra_params.maps[1]
                    IN  [k \in DOMAIN m |->
                            IF m[k].type = "geom" THEN PyStr(m[k].wkt)
                            ELSE PyStr(str(m[k]))]
              [] extra_params.kind = "sequence" /\ extra_params.maps # <<>> ->
                    [k \in DOMAIN extra_params.maps[1] |-> PyStr(<<":" \o k>>)]
              [] OTHER -> [k \in {} |-> PyNone]
        params == [k \in DOMAIN compiled.params \cup DOMAIN update |->
                      IF k \in DOMAIN update THEN update[k] ELSE compiled.params[k]]
        sqlstr == compiled.text
        pparams == [i \in DOMAIN compiled.positiontup |->
                       repr(Get(params, compiled.positiontup[i]))]
    IN  IF conn.dialect = "postgresql"
        THEN IF sa_version = "1"
             THEN LET sqlstr1 == sub_postcompile("%s", sqlstr)
                      res == format_tuple(sqlstr1, pparams, 1)
                  IN  IF res.raised = "TypeError" THEN Result("", sqlstr1) ELSE res
             ELSE LET sqlstr1 == sub_percent(sqlstr)
                      sqlstr2 == sub_postcompile("%(\\1)s", sqlstr1)
                  IN  format_dict(sqlstr2, params)
        ELSE IF conn.dialect # "sqlite" THEN Result("AssertionError", <<>>)
        ELSE sub_qmark(sub_postcompile("?", sqlstr), pparams, 1)


\* BaseLogger.format_sql
format_sql(conn, statement, extra_params) ==
    LET compiled == statement
        update ==
            CASE extra_params.kind = "mapping" ->
                    LET m == extra_params.maps[1]
                    IN  [k \in DOMAIN m |->
                            IF m[k].type = "geom" THEN PyStr(m[k].wkt)
                            ELSE IF m[k].type \in {"int", "float"} THEN m[k]
                            ELSE PyStr(str(m[k]))]
              [] extra_params.kind = "sequence" /\ extra_params.maps # <<>> ->
                    [k \in DOMAIN extra_params.maps[1] |-> PyStr(<<":" \o k>>)]
              [] OTHER -> [k \in {} |-> PyNone]
        params == [k \in DOMAIN compiled.params \cup DOMAIN update |->
                      IF k \in DOMAIN update THEN update[k] ELSE compiled.params[k]]
        sqlstr == compiled.text
        pparams == [i \in DOMAIN compiled.positiontup |->
                       repr(Get(params, compiled.positiontup[i]))]
    IN  IF conn.dialect = "postgresql"
        THEN IF sa_version = "1"
             THEN LET sqlstr1 == sub_postcompile("%s", sqlstr)
                      res == format_tuple(sqlstr1, pparams, 1)
                  IN  IF res.raised = "TypeError" THEN Result("", sqlstr1) ELSE res
             ELSE LET sqlstr1 == sub_percent(sqlstr)
                      sqlstr2 == sub_postcompile("%(\\1)s", sqlstr1)
                  IN  format_dict(sqlstr2, params)
        ELSE IF conn.dialect # "sqlite" THEN Result("AssertionError", <<>>)
        ELSE sub_qmark(sub_postcompile("?", sqlstr), pparams, 1)

---------------------------------------------------------------------------
(* sql of the two loggers.                                                 *)

\* the width given to textwrap.wrap
width == 78

\* textwrap.wrap(text, width): the lines of text, broken between tokens
RECURSIVE wrap_from(_, _, _)
wrap_from(rest, w, line) ==
    IF rest = <<>> THEN <<line>>
    ELSE IF StrLen(line) + Len(Head(rest)) <= w
    THEN wrap_from(Tail(rest), w, Append(line, Head(rest)))
    ELSE <<line>> \o wrap_from(Tail(rest), w, <<Head(rest)>>)

wrap(text, w) == IF text = <<>> THEN <<>> ELSE wrap_from(Tail(text), w, <<Head(text)>>)

HTMLLogger_sql(self, conn, statement, params, src) ==
    LET r1 == _timestamp(Run(self), src)
        res == format_sql(conn, statement, params)
    IN  IF res.raised # "" THEN Raise(r1, res.raised)
        ELSE IF CODE_HIGHLIGHT
        THEN _write(r1, <<"<div class=\"highlight\"><code class=\"lang-sql\">">>
                        \o highlight(res.value, "PostgresLexer") \o <<"</code></div>">>, src)
        ELSE _write(r1, <<"<code class=\"lang-sql\">">> \o html_escape(res.value)
                        \o <<"</code>">>, src)

TextLogger_sql(self, conn, statement, params, src) ==
    LET r1 == _timestamp(Run(self), src)
        res == format_sql(conn, statement, params)
    IN  IF res.raised # "" THEN Raise(r1, res.raised)
        ELSE LET sqlstr == Join("\n| ", wrap(res.value, width))
             IN  _write(r1, <<"| ">> \o sqlstr \o <<"\n\n">>, src)

---------------------------------------------------------------------------
(* BaseLogger: every method is empty.                                      *)

BaseLogger_function(self, func, kwargs, src) == Run(self)

BaseLogger_section(self, heading, src) == Run(self)

BaseLogger_comment(self, text, src) == Run(self)

\* mutant: the callable is called although nothing is written
BaseLogger_var_dump_calls(self, heading, var, src) ==
    IF var.callable THEN [Run(self) EXCEPT !.invoked = @ + 1] ELSE Run(self)

BaseLogger_var_dump(self, heading, var, src) == Run(self)

BaseLogger_table_dump(self, heading, rows, src) == Run(self)

BaseLogger_result_dump(self, heading, results, src) == Run(self)

BaseLogger_sql(self, conn, statement, params, src) == Run(self)

---------------------------------------------------------------------------
(* A call of a logging method.  ev is the call: the method (op) and its    *)
(* arguments; the class of the object decides which code runs.             *)

HTMLLogger_call(self, ev, src) ==
    CASE ev.op = "function" -> HTMLLogger_function(self, ev.heading, ev.kwargs, src)
      [] ev.op = "section" -> HTMLLogger_section(self, ev.heading, src)
      [] ev.op = "comment" -> HTMLLogger_comment(self, ev.heading, src)
      [] ev.op = "var_dump" -> HTMLLogger_var_dump(self, ev.heading, ev.var, src)
      [] ev.op = "table_dump" -> HTMLLogger_table_dump(self, ev.heading, ev.rows, src)
      [] ev.op = "result_dump" -> HTMLLogger_result_dump(self, ev.heading, ev.results, src)
      [] ev.op = "sql" -> HTMLLogger_sql(self, ev.conn, ev.statement, ev.params, src)

TextLogger_call(self, ev, src) ==
    CASE ev.op = "function" -> TextLogger_function(self, ev.heading, ev.kwargs, src)
      [] ev.op = "section" -> TextLogger_section(self, ev.heading, src)
      [] ev.op = "comment" -> TextLogger_comment(self, ev.heading, src)
      [] ev.op = "var_dump" -> TextLogger_var_dump(self, ev.heading, ev.var, src)
      [] ev.op = "table_dump" -> TextLogger_table_dump(self, ev.heading, ev.rows, src)
      [] ev.op = "result_dump" -> TextLogger_result_dump(self, ev.heading, ev.results, src)
      [] ev.op = "sql" -> TextLogger_sql(self, ev.conn, ev.statement, ev.params, src)

BaseLogger_call(self, ev, src) ==
    CASE ev.op = "function" -> BaseLogger_function(self, ev.heading, ev.kwargs, src)
      [] ev.op = "section" -> BaseLogger_section(self, ev.heading, src)
      [] ev.op = "comment" -> BaseLogger_comment(self, ev.heading, src)
      [] ev.op = "var_dump" -> BaseLogger_var_dump(self, ev.heading, ev.var, src)
      [] ev.op = "table_dump" -> BaseLogger_table_dump(self, ev.heading, ev.rows, src)
      [] ev.op = "result_dump" -> BaseLogger_result_dump(self, ev.heading, ev.results, src)
      [] ev.op = "sql" -> BaseLogger_sql(self, ev.conn, ev.statement, ev.params, src)

Call(self, ev, src) ==
    CASE self.cls = "HTMLLogger" -> HTMLLogger_call(self, ev, src)
      [] self.cls = "TextLogger" -> TextLogger_call(self, ev, src)
      [] OTHER -> BaseLogger_call(self, ev, src)

---------------------------------------------------------------------------
(* The calls that the tasks make: sample arguments of every method.        *)

EmptyMap == [k \in {} |-> PyNone]

NoArgs ==
    [op |-> "", heading |-> "", kwargs |-> <<>>,
     var |-> [callable |-> FALSE, value |-> PyNone],
     rows |-> <<>>, results |-> <<>>,
     conn |-> [dialect |-> ""],
     statement |-> [text |-> <<>>, params |-> EmptyMap, positiontup |-> <<>>],
     params |-> [kind |-> "none", maps |-> <<>>]]

List(cells) == [none |-> FALSE, cells |-> cells]

None == [none |-> TRUE, cells |-> <<>>]

Header == List(<<PyStr(<<"a">>), PyStr(<<"b">>)>>)

RowSeqs ==
    { <<>>,
      <<None>>,
      <<List(<<>>)>>,
      <<Header>>,
      <<Header, None>>,
      <<Header, List(<<PyInt("1")>>)>>,
      <<Header, List(<<PyInt("1"), PyInt("2")>>), List(<<PyInt("3"), PyInt("4")>>)>>,
      <<Header, List(<<PyInt("1"), PyInt("22")>>), None, List(<<PyInt("3"), PyStr(<<"<", "i", ">">>)>>)>> }

Place ==
    [names |-> << [key |-> "ref", value |-> "B1"], [key |-> "name", value |-> "Bern"] >>,
     housenumber |-> [none |-> TRUE, v |-> ""],
     source_table |-> "placex", category |-> <<"place", "city">>,
     rank_address |-> "16", osm_object |-> <<"R", "1">>, country_code |-> "ch",
     importance |-> [none |-> FALSE, v |-> 50000]]

House ==
    [names |-> <<>>,
     housenumber |-> [none |-> FALSE, v |-> "7"],
     source_table |-> "osmline", category |-> <<"place", "house">>,
     rank_address |-> "30", osm_object |-> <<>>, country_code |-> "None",
     importance |-> [none |-> TRUE, v |-> 0]]

Street ==
    [names |-> << [key |-> "ref", value |-> "A1"] >>,
     housenumber |-> [none |-> TRUE, v |-> ""],
     source_table |-> "placex", category |-> <<"highway", "road">>,
     rank_address |-> "26", osm_object |-> <<"X", "3">>, country_code |-> "ch",
     importance |-> [none |-> FALSE, v |-> 0]]

ResultSeqs ==
    { <<>>,
      << [rank |-> 500, res |-> Place] >>,
      << [rank |-> 1250, res |-> House], [rank |-> 2000, res |-> Street] >> }

Compiled(text, positiontup) ==
    [text |-> text,
     params |-> [k \in {positiontup[i] : i \in DOMAIN positiontup} |-> PyNone],
     positiontup |-> positiontup]

\* what compile() gives on a postgresql connection
PostgresqlStatements ==
    { Compiled(<<"SELECT 1 WHERE id = ", "%(", "id", ")s">>, <<"id">>),
      Compiled(<<"SELECT 1 WHERE id = ", "%s">>, <<"id">>),
      Compiled(<<"SELECT 1 WHERE id IN (", "__[POSTCOMPILE_", "id", "]", ") AND n LIKE ", "'", "%%", "'">>,
               <<"id">>) }

\* what compile() gives on a sqlite connection
SqliteStatements ==
    { Compiled(<<"SELECT * FROM t WHERE id = ", "?">>, <<"id">>),
      Compiled(<<"SELECT 1 WHERE id IN (", "__[POSTCOMPILE_", "id", "]", ")">>, <<"id">>),
      Compiled(<<"SELECT ", "'", "?", "'", " WHERE id = ", "?">>, <<"id">>) }

ParamSets ==
    { [kind |-> "none", maps |-> <<>>],
      [kind |-> "mapping", maps |-> << ("id" :> PyInt("5")) >>],
      [kind |-> "sequence", maps |-> << ("id" :> PyInt("5")), ("id" :> PyInt("6")) >>] }

FunctionCalls ==
    { [NoArgs EXCEPT !.op = "function", !.heading = "search", !.kwargs = kw] :
        kw \in { <<>>, << [name |-> "q", value |-> PyStr(<<"a", "&", "b">>)] >> } }

SectionCalls == { [NoArgs EXCEPT !.op = "section", !.heading = "h"] }

CommentCalls == { [NoArgs EXCEPT !.op = "comment", !.heading = c] : c \in {"c", ""} }

VarDumpCalls ==
    { [NoArgs EXCEPT !.op = "var_dump", !.heading = "v", !.var = v] :
        v \in { [callable |-> FALSE, value |-> PyInt("1")],
                [callable |-> TRUE, value |-> PyStr(<<"<", "x", ">">>)] } }

TableDumpCalls ==
    { [NoArgs EXCEPT !.op = "table_dump", !.heading = "t", !.rows = rows] : rows \in RowSeqs }

ResultDumpCalls ==
    { [NoArgs EXCEPT !.op = "result_dump", !.heading = "r", !.results = results] :
        results \in ResultSeqs }

SqlCalls ==
    { [NoArgs EXCEPT !.op = "sql", !.conn = [dialect |-> "postgresql"],
                     !.statement = st, !.params = ps] :
        st \in PostgresqlStatements, ps \in ParamSets }
    \cup
    { [NoArgs EXCEPT !.op = "sql", !.conn = [dialect |-> "sqlite"],
                     !.statement = st, !.params = ps] :
        st \in SqliteStatements, ps \in ParamSets }

\* the calls of the two-task specification
SimpleCalls == SectionCalls \cup CommentCalls

\* the calls of the operations specification
AllCalls ==
    FunctionCalls \cup SectionCalls \cup CommentCalls \cup VarDumpCalls
    \cup TableDumpCalls \cup ResultDumpCalls \cup SqlCalls

\* the formats that set_log_output is called with
Formats == {"html", "text", "json"}

---------------------------------------------------------------------------
(* The context variable and the module functions.                          *)

\* logger.get(): the object in the context of task t
log(t) == logger[t]

\* the call number n of task t
Event(t) == <<t, steps[t] + 1>>

Did(t, op, f, ret, r, offered, callable) ==
    [task |-> t, op |-> op, fmt |-> f, ret |-> ret, raised |-> r.raised,
     consumed |-> r.consumed, invoked |-> r.invoked,
     offered |-> offered, callable |-> callable]

\* mutant: the branch for 'text' is missing
NewLogger_no_text(f, id) ==
    IF f = "html" THEN HTMLLogger(id) ELSE BaseLogger(id)

\* mutant: an unknown format gives a TextLogger
NewLogger_else_text(f, id) ==
    IF f = "html" THEN HTMLLogger(id) ELSE TextLogger(id)

\* the object that set_log_output creates for f
NewLogger(f, id) ==
    IF f = "html" THEN HTMLLogger(id)
    ELSE IF f = "text" THEN TextLogger(id)
    ELSE BaseLogger(id)

\* the history of task t after its call op
Note(t, op) == [ops EXCEPT ![t] = <<op, @[1], @[2]>>]

\* mutant: the default of the context variable is a TextLogger
DefaultLogger_text == TextLogger(NoEvent)

\* logger: ContextVar[BaseLogger] = ContextVar('logger', default=BaseLogger())
DefaultLogger == BaseLogger(NoEvent)

\* mutant: logger is a module global, one for all tasks
set_log_output_global(t, f) ==
    /\ logger' = [u \in Tasks |-> NewLogger(f, Event(t))]
    /\ steps' = [steps EXCEPT ![t] = @ + 1]
    /\ last' = Did(t, "set_log_output", f, <<>>, Run(log(t)), 0, FALSE)
    /\ fmt' = [fmt EXCEPT ![t] = f]
    /\ ops' = Note(t, "set_log_output")
    /\ discarded' = [discarded EXCEPT ![t] = @ + Len(log(t).buffer)]
    /\ UNCHANGED <<CODE_HIGHLIGHT, sa_version>>

\* mutant: the new logger takes over the buffer of the one it replaces
set_log_output_keeps(t, f) ==
    /\ logger' = [logger EXCEPT ![t] = [NewLogger(f, Event(t)) EXCEPT
                                           !.buffer = IF f \in {"html", "text"}
                                                      THEN log(t).buffer ELSE <<>>]]
    /\ steps' = [steps EXCEPT ![t] = @ + 1]
    /\ last' = Did(t, "set_log_output", f, <<>>, Run(log(t)), 0, FALSE)
    /\ fmt' = [fmt EXCEPT ![t] = f]
    /\ ops' = Note(t, "set_log_output")
    /\ discarded' = [discarded EXCEPT ![t] = @ + Len(log(t).buffer)]
    /\ UNCHANGED <<CODE_HIGHLIGHT, sa_version>>

set_log_output(t, f) ==
    /\ logger' = [logger EXCEPT ![t] = NewLogger(f, Event(t))]
    /\ steps' = [steps EXCEPT ![t] = @ + 1]
    /\ last' = Did(t, "set_log_output", f, <<>>, Run(log(t)), 0, FALSE)
    /\ fmt' = [fmt EXCEPT ![t] = f]
    /\ ops' = Note(t, "set_log_output")
    /\ discarded' = [discarded EXCEPT ![t] = @ + Len(log(t).buffer)]
    /\ UNCHANGED <<CODE_HIGHLIGHT, sa_version>>

\* mutant: the logger is replaced before its buffer is read
get_and_disable_late(t) ==
    /\ logger' = [logger EXCEPT ![t] = BaseLogger(Event(t))]
    /\ steps' = [steps EXCEPT ![t] = @ + 1]
    /\ last' = Did(t, "get_and_disable", "", get_buffer(BaseLogger(Event(t))), Run(log(t)), 0, FALSE)
    /\ ops' = Note(t, "get_and_disable")
    /\ UNCHANGED <<fmt, discarded, CODE_HIGHLIGHT, sa_version>>

\* mutant: the logger stays in place
get_and_disable_keeps(t) ==
    /\ steps' = [steps EXCEPT ![t] = @ + 1]
    /\ last' = Did(t, "get_and_disable", "", get_buffer(log(t)), Run(log(t)), 0, FALSE)
    /\ ops' = Note(t, "get_and_disable")
    /\ UNCHANGED <<logger, fmt, discarded, CODE_HIGHLIGHT, sa_version>>

get_and_disable(t) ==
    LET buf == get_buffer(log(t))
    IN  /\ logger' = [logger EXCEPT ![t] = BaseLogger(Event(t))]
        /\ steps' = [steps EXCEPT ![t] = @ + 1]
        /\ last' = Did(t, "get_and_disable", "", buf, Run(log(t)), 0, FALSE)
        /\ ops' = Note(t, "get_and_disable")
        /\ UNCHANGED <<fmt, discarded, CODE_HIGHLIGHT, sa_version>>

\* log().get_buffer()
log_get_buffer(t) ==
    /\ steps' = [steps EXCEPT ![t] = @ + 1]
    /\ last' = Did(t, "get_buffer", "", get_buffer(log(t)), Run(log(t)), 0, FALSE)
    /\ ops' = Note(t, "get_buffer")
    /\ UNCHANGED <<logger, fmt, discarded, CODE_HIGHLIGHT, sa_version>>

\* mutant: the method writes to a logger of its own, not to the one of the
\* context
log_call_lost(t, ev) ==
    LET r == Call(log(t), ev, Event(t))
    IN  /\ steps' = [steps EXCEPT ![t] = @ + 1]
        /\ last' = Did(t, ev.op, "", <<>>, r, Len(ev.rows) + Len(ev.results), ev.var.callable)
        /\ ops' = Note(t, ev.op)
        /\ UNCHANGED <<logger, fmt, discarded, CODE_HIGHLIGHT, sa_version>>

\* log().<ev.op>(...): what the method wrote stays in the buffer, also when
\* the method raised
log_call(t, ev) ==
    LET r == Call(log(t), ev, Event(t))
    IN  /\ logger' = [logger EXCEPT ![t] = r.self]
        /\ steps' = [steps EXCEPT ![t] = @ + 1]
        /\ last' = Did(t, ev.op, "", <<>>, r, Len(ev.rows) + Len(ev.results), ev.var.callable)
        /\ ops' = Note(t, ev.op)
        /\ UNCHANGED <<fmt, discarded, CODE_HIGHLIGHT, sa_version>>

---------------------------------------------------------------------------
(* Specifications.                                                         *)

Init ==
    /\ logger = [t \in Tasks |-> DefaultLogger]
    /\ steps = [t \in Tasks |-> 0]
    /\ last = Did(0, "import", "", <<>>, Run(DefaultLogger), 0, FALSE)
    /\ fmt = [t \in Tasks |-> ""]
    /\ ops = [t \in Tasks |-> <<"", "", "">>]
    /\ discarded = [t \in Tasks |-> 0]
    /\ CODE_HIGHLIGHT \in BOOLEAN
    /\ sa_version \in {"1", "2"}

\* calls made so far by all tasks
Calls == steps[1] + steps[2]

\* two tasks, each with its own context, calling in any order
Next ==
    \E t \in Tasks :
        \/ \E f \in Formats : Calls < MaxSteps /\ set_log_output(t, f)
        \/ \E ev \in SimpleCalls : Calls < MaxSteps /\ log_call(t, ev)
        \/ Calls < MaxSteps /\ log_get_buffer(t)
        \/ Calls < MaxSteps /\ get_and_disable(t)

Spec == Init /\ [][Next]_vars

\* one task calling every method with every sample argument
NextOps ==
    \/ \E f \in Formats : steps[1] < MaxOps /\ set_log_output(1, f)
    \/ \E ev \in AllCalls : steps[1] < MaxOps /\ log_call(1, ev)
    \/ steps[1] < MaxOps /\ log_get_buffer(1)
    \/ steps[1] < MaxOps /\ get_and_disable(1)

SpecOps == Init /\ [][NextOps]_vars

---------------------------------------------------------------------------
(* Properties.                                                             *)

EventOps == {"function", "section", "comment", "var_dump", "table_dump", "result_dump", "sql"}

\* task t makes this step, and it is a call of op
Step(t, op) == steps'[t] # steps[t] /\ last'.op = op

\* task t makes this step, and it is a call of a logging method
EventStep(t) == steps'[t] # steps[t] /\ last'.op \in EventOps

\* the text is the empty string
IsEmpty(out) == \A i \in DOMAIN out : StrLen(out[i].text) = 0

\* the state of the register of a task
RegState(sink) ==
    CASE sink.cls = "HTMLLogger" -> "ACTIVE(html)"
      [] sink.cls = "TextLogger" -> "ACTIVE(text)"
      [] OTHER -> "NULL"

\* what the method of this step appended to the buffer of task t
NewChunks(t) ==
    SubSeq(logger'[t].buffer, Len(logger[t].buffer) + 1, Len(logger'[t].buffer))

IsTimestamp(chunk) ==
    chunk.text \in { <<"<p class=\"timestamp\">[", "now", "]</p>">>, <<"[", "now", "]\n">> }

\* the chunk was written by task t after the logger sink was created
WrittenTo(chunk, sink, t) == chunk.src[1] = t /\ chunk.src[2] > sink.id[2]

\* C1: get_and_disable returns exactly what get_buffer of the logger that
\* was current in the calling task just before the call gives, and leaves a
\* BaseLogger (the null sink) in the register of that task, whatever the
\* register held before (BaseLogger, HTMLLogger or TextLogger).
C1_FinalizeReturnsSnapshot ==
    [][\A t \in Tasks : Step(t, "get_and_disable") =>
          /\ last'.ret = get_buffer(logger[t])
          /\ logger'[t].cls = "BaseLogger"
          /\ logger'[t].buffer = <<>>
          /\ get_buffer(logger'[t]) = <<>>]_vars

\* a get_and_disable has just returned a document with the output of events
C1_Witness ==
    /\ last.op = "get_and_disable"
    /\ \E i \in DOMAIN last.ret : last.ret[i].src # NoEvent
    /\ \E i \in DOMAIN last.ret : last.ret[i].text = HTML_FOOTER
    /\ logger[last.task].cls = "BaseLogger"

\* C2 as claimed: a get_and_disable on a HTMLLogger or TextLogger returns
\* non-empty text, whatever was logged (also nothing); a get_and_disable
\* right after a get_and_disable returns the empty string; the logger is a
\* BaseLogger after both.
C2_Original ==
    [][\A t \in Tasks : Step(t, "get_and_disable") =>
          /\ logger'[t].cls = "BaseLogger"
          /\ logger[t].cls # "BaseLogger" => ~IsEmpty(last'.ret)
          /\ ops[t][1] = "get_and_disable" => IsEmpty(last'.ret)]_vars

\* C2 amended: the first get_and_disable returns non-empty text for a
\* HTMLLogger and for a TextLogger that something was written to, and the
\* empty string for a TextLogger that nothing was written to; a
\* get_and_disable right after a get_and_disable returns the empty string;
\* the logger is a BaseLogger after both.
C2_FinalizeTwice ==
    [][\A t \in Tasks : Step(t, "get_and_disable") =>
          /\ logger'[t].cls = "BaseLogger"
          /\ logger[t].cls = "HTMLLogger" => ~IsEmpty(last'.ret)
          /\ logger[t].cls = "TextLogger" => (IsEmpty(last'.ret) <=> logger[t].buffer = <<>>)
          /\ \A i \in DOMAIN logger[t].buffer : StrLen(logger[t].buffer[i].text) > 0
          /\ ops[t][1] = "get_and_disable" => IsEmpty(last'.ret)]_vars

\* set_log_output('text'), get_and_disable, get_and_disable: both return
\* the empty string
C2_Witness ==
    \E t \in Tasks :
        /\ steps[t] = 3 /\ fmt[t] = "text"
        /\ ops[t] = <<"get_and_disable", "get_and_disable", "set_log_output">>
        /\ last.task = t /\ last.ret = <<>>

\* C3: a call made by one task leaves the logger of every other task as it
\* is (the object and its buffer), what the call returns holds output of
\* the calling task only, and the buffer of a task holds only what that
\* task wrote.
C3_TaskIsolation ==
    [][\A t \in Tasks : steps'[t] # steps[t] =>
          /\ \A u \in Tasks \ {t} : logger'[u] = logger[u]
          /\ \A i \in DOMAIN last'.ret : last'.ret[i].src[1] \in {0, t}
          /\ \A u \in Tasks : \A i \in DOMAIN logger'[u].buffer :
                logger'[u].buffer[i].src[1] = u]_vars

\* both tasks have a logger with output of their own in it, and one of them
\* has just read its buffer
C3_Witness ==
    /\ \A t \in Tasks : logger[t].cls # "BaseLogger" /\ logger[t].buffer # <<>>
    /\ logger[1].cls # logger[2].cls
    /\ last.op = "get_buffer" /\ last.ret # <<>>

\* C4 as claimed: every step that changes the state of the register is a
\* set_log_output(fmt) that ends in ACTIVE(fmt) or a get_and_disable that
\* goes from ACTIVE to NULL; a logging method or get_buffer leaves the same
\* object in the register.
C4_Original ==
    [][\A t \in Tasks : steps'[t] # steps[t] =>
          \/ /\ last'.op = "set_log_output"
             /\ RegState(logger'[t]) = "ACTIVE(" \o last'.fmt \o ")"
          \/ /\ last'.op = "get_and_disable"
             /\ RegState(logger[t]) # "NULL" /\ RegState(logger'[t]) = "NULL"
          \/ /\ RegState(logger'[t]) = RegState(logger[t])
             /\ last'.op \notin {"set_log_output", "get_and_disable"}
                    => logger'[t].id = logger[t].id]_vars

\* C4 amended: set_log_output with 'html' or 'text' puts a new, empty logger
\* of that format in the register, from NULL and from ACTIVE;
\* set_log_output with any other name and get_and_disable put a new
\* BaseLogger there (NULL); a logging method or get_buffer leaves the same
\* object in the register.
C4_RegisterTransitions ==
    [][\A t \in Tasks : steps'[t] # steps[t] =>
          CASE last'.op = "set_log_output" ->
                  /\ RegState(logger'[t]) =
                        (IF last'.fmt \in {"html", "text"}
                         THEN "ACTIVE(" \o last'.fmt \o ")" ELSE "NULL")
                  /\ logger'[t].id = <<t, steps'[t]>>
                  /\ logger'[t].buffer = <<>>
            [] last'.op = "get_and_disable" ->
                  /\ RegState(logger'[t]) = "NULL"
                  /\ logger'[t].id = <<t, steps'[t]>>
            [] OTHER ->
                  /\ logger'[t].id = logger[t].id
                  /\ logger'[t].cls = logger[t].cls]_vars

\* a set_log_output with an unknown name has just replaced a logger that
\* held output
C4_Witness ==
    \E t \in Tasks :
        /\ last.task = t /\ last.op = "set_log_output" /\ last.fmt = "json"
        /\ steps[t] = 3 /\ discarded[t] > 0
        /\ ops[t][2] \in EventOps /\ ops[t][3] = "set_log_output"
        /\ RegState(logger[t]) = "NULL"

\* C5: the logger that set_log_output installs is new and empty: its buffer
\* and what get_buffer returns hold only what the task wrote after that
\* set_log_output, also when a HTMLLogger or TextLogger with output was in
\* the register before and also when the format is the same as before.
C5_SelectInstallsFreshSink ==
    /\ \A t \in Tasks : \A i \in DOMAIN logger[t].buffer :
          WrittenTo(logger[t].buffer[i], logger[t], t)
    /\ last.op = "set_log_output" =>
          /\ logger[last.task].buffer = <<>>
          /\ logger[last.task].id = <<last.task, steps[last.task]>>
    /\ last.op = "get_buffer" =>
          /\ last.ret = get_buffer(logger[last.task])
          /\ \A i \in DOMAIN last.ret :
                \/ last.ret[i].src = NoEvent
                \/ WrittenTo(last.ret[i], logger[last.task], last.task)

\* set_log_output, an event, set_log_output('text'), an event, get_buffer:
\* the first logger held output, and the text returned is that of the
\* second event
C5_Witness ==
    \E t \in Tasks :
        /\ steps[t] = 5 /\ discarded[t] > 0 /\ fmt[t] = "text"
        /\ ops[t][1] = "get_buffer" /\ ops[t][2] \in EventOps /\ ops[t][3] = "set_log_output"
        /\ last.task = t /\ last.ret # <<>>
        /\ \A i \in DOMAIN last.ret : last.ret[i].src = <<t, 4>>

\* C6: after set_log_output with a name other than 'html' and 'text', from
\* a BaseLogger and from a logger with output alike, the logger of the task
\* is a BaseLogger, nothing is in its buffer and get_buffer and
\* get_and_disable return the empty string, whatever was logged since.
C6_UnknownFormatIsNullSink ==
    \A t \in Tasks : fmt[t] \notin {"", "html", "text"} =>
        /\ logger[t].cls = "BaseLogger"
        /\ logger[t].buffer = <<>>
        /\ get_buffer(logger[t]) = <<>>
        /\ last.task = t => last.ret = <<>>

\* set_log_output('html'), an event, set_log_output('json'), an event,
\* get_buffer
C6_Witness ==
    \E t \in Tasks :
        /\ steps[t] = 5 /\ fmt[t] = "json" /\ discarded[t] > 0
        /\ ops[t][1] = "get_buffer" /\ ops[t][2] \in EventOps /\ ops[t][3] = "set_log_output"
        /\ last.task = t /\ last.ret = <<>>

\* C7: as long as a task has not called set_log_output its logger is the
\* default BaseLogger: nothing a logging method is given gets into a
\* buffer, and get_buffer and get_and_disable return the empty string.
C7_DefaultIsNullSink ==
    \A t \in Tasks : fmt[t] = "" =>
        /\ logger[t].cls = "BaseLogger"
        /\ logger[t].buffer = <<>>
        /\ get_buffer(logger[t]) = <<>>
        /\ last.task = t => last.ret = <<>>

\* an event, get_buffer, get_and_disable, and no set_log_output
C7_Witness ==
    /\ fmt[1] = "" /\ steps[1] = 3
    /\ ops[1][1] = "get_and_disable" /\ ops[1][2] = "get_buffer" /\ ops[1][3] \in EventOps
    /\ last.ret = <<>>

\* the number of the call that is k-th last in task t
CallNo(t, k) == steps[t] - k + 1

\* the k-th last call of task t was made on a BaseLogger: it was the first
\* call of the task or the call before it was a get_and_disable
OnNullSink(t, k) ==
    \/ steps[t] = k
    \/ k < 3 /\ steps[t] > k /\ ops[t][k + 1] = "get_and_disable"

\* the chunks in the buffer of the logger of task t
Buffered(t) == { logger[t].buffer[i] : i \in DOMAIN logger[t].buffer }

\* the chunks that task t can read now: its buffer and what its last call
\* returned
Readable(t) ==
    Buffered(t)
        \cup (IF last.task = t THEN { last.ret[i] : i \in DOMAIN last.ret } ELSE {})

\* C8: a task has one logger at any time; what a logging method is given
\* while the logger is a BaseLogger (before any set_log_output, or after a
\* get_and_disable) is in no buffer and in nothing get_buffer or
\* get_and_disable returns later; and after a get_and_disable nothing
\* written before it is in the buffer or in what these return.
C8_NullSinkLosesEvents ==
    /\ DOMAIN logger = Tasks
    /\ \A t \in Tasks :
          /\ logger[t].cls \in {"BaseLogger", "HTMLLogger", "TextLogger"}
          /\ \A k \in 1..3 :
                /\ steps[t] >= k /\ ops[t][k] \in EventOps /\ OnNullSink(t, k) =>
                      \A c \in Readable(t) : c.src # <<t, CallNo(t, k)>>
                /\ steps[t] >= k /\ ops[t][k] = "get_and_disable" =>
                      \A c \in (IF k = 1 THEN Buffered(t) ELSE Readable(t)) :
                          c.src = NoEvent \/ c.src[2] > CallNo(t, k)

\* an event on the default logger, set_log_output('html'), get_and_disable:
\* the document returned has nothing of the event
C8_Witness ==
    \E t \in Tasks :
        /\ steps[t] = 3 /\ ops[t][1] = "get_and_disable"
        /\ ops[t][2] = "set_log_output" /\ ops[t][3] \in EventOps
        /\ last.task = t /\ last.ret # <<>>

\* C9: a logging method of a BaseLogger changes nothing: the logger and
\* its (empty) buffer stay as they are, no row or result of the sequence
\* it is given is taken, the callable given to var_dump is not called,
\* and nothing is raised, also for arguments that make a HTMLLogger or
\* TextLogger raise.
C9_NullSinkNoOp ==
    [][EventStep(1) /\ logger[1].cls = "BaseLogger" =>
          /\ logger' = logger
          /\ get_buffer(logger'[1]) = <<>>
          /\ last'.raised = ""
          /\ last'.consumed = 0
          /\ last'.invoked = 0
          /\ UNCHANGED <<fmt, discarded, CODE_HIGHLIGHT, sa_version>>]_vars

\* table_dump with an empty row sequence on a BaseLogger returned
\* normally; a HTMLLogger and a TextLogger raise for it
C9_Witness ==
    /\ logger[1].cls = "BaseLogger" /\ steps[1] >= 1
    /\ last.op = "table_dump" /\ last.offered = 0 /\ last.raised = ""
    /\ \A ev \in TableDumpCalls : ev.rows = <<>> =>
          /\ Call(HTMLLogger(NoEvent), ev, NoEvent).raised # ""
          /\ Call(TextLogger(NoEvent), ev, NoEvent).raised # ""

\* C10 as claimed: every logging method of a HTMLLogger and of a
\* TextLogger writes a timestamp before anything else it writes.
C10_Original ==
    [][EventStep(1) /\ logger[1].cls # "BaseLogger" =>
          /\ NewChunks(1) # <<>>
          /\ IsTimestamp(NewChunks(1)[1])]_vars

\* C10 amended: every logging method of a HTMLLogger writes a timestamp
\* before anything else it writes; of a TextLogger, section, result_dump
\* and sql do so, and function, comment, var_dump and table_dump write no
\* timestamp at all.
C10_TimestampFirst ==
    [][EventStep(1) /\ logger[1].cls # "BaseLogger" =>
          IF logger[1].cls = "HTMLLogger" \/ last'.op \in {"section", "result_dump", "sql"}
          THEN /\ NewChunks(1) # <<>>
               /\ IsTimestamp(NewChunks(1)[1])
               /\ \A i \in 2..Len(NewChunks(1)) : ~IsTimestamp(NewChunks(1)[i])
          ELSE \A i \in DOMAIN NewChunks(1) : ~IsTimestamp(NewChunks(1)[i])]_vars

\* comment on a TextLogger has written its line, and no timestamp
C10_Witness ==
    /\ logger[1].cls = "TextLogger" /\ last.op = "comment" /\ steps[1] = 2
    /\ Len(logger[1].buffer) = 1
    /\ ~IsTimestamp(logger[1].buffer[1])

---------------------------------------------------------------------------
(* format_sql called on the logger of a task: the specification of the     *)
(* statements.                                                             *)

MaxSql == 2

\* str(compiled) on a postgresql connection
PostgresqlTexts ==
    { <<"SELECT 1">>,
      <<"SELECT 1 WHERE id = ", "%(", "id", ")s">>,
      <<"SELECT 1 WHERE id = ", "%s">>,
      <<"SELECT ", "%s", " WHERE id = ", "%s">>,
      <<"SELECT 1 WHERE id IN (", "__[POSTCOMPILE_", "id", "]", ") AND n LIKE ", "'", "%%", "'">>,
      <<"SELECT 1 WHERE n LIKE ", "'", "x", "%", "'", " AND id = ", "%s">>,
      <<"SELECT 1 WHERE n LIKE ", "'", "x", "%", "'", " AND id = ", "%(", "id", ")s">> }

\* str(compiled) on a sqlite connection
SqliteTexts ==
    { <<"SELECT 1">>,
      <<"SELECT * FROM t WHERE id = ", "?">>,
      <<"SELECT 1 WHERE id IN (", "__[POSTCOMPILE_", "id", "]", ")">>,
      <<"SELECT ", "?", " WHERE id IN (", "__[POSTCOMPILE_", "id", "]", ")">>,
      <<"SELECT ", "'", "?", "'", " WHERE id = ", "?">> }

\* compiled.positiontup
Positions == { <<>>, <<"id">>, <<"b", "id">> }

\* compiled.params for a position order: every name bound (id to the text
\* 'x' that the statement gives it, any other name to None), or no name at
\* all
CompiledParams(positiontup) ==
    { [k \in {positiontup[i] : i \in DOMAIN positiontup} |->
          IF k = "id" THEN PyStr(<<"x">>) ELSE PyNone],
      EmptyMap }

\* the argument extra_params
ExtraParams ==
    { [kind |-> "none", maps |-> <<>>],
      [kind |-> "mapping", maps |-> << EmptyMap >>],
      [kind |-> "mapping", maps |-> << ("id" :> PyInt("5")) >>],
      [kind |-> "mapping", maps |-> << ("id" :> PyStr(<<"?">>) @@ "b" :> PyObj("O")) >>],
      [kind |-> "mapping", maps |-> << ("id" :> PyGeom("G", <<"POINT(1 2)">>)) >>],
      [kind |-> "sequence", maps |-> <<>>],
      [kind |-> "sequence", maps |-> << ("id" :> PyInt("5")), ("id" :> PyInt("6")) >>] }

\* the arguments of format_sql for a connection of dialect d, which gives
\* the texts of the set texts
SqlInputsOf(d, texts) ==
    UNION { { [conn |-> [dialect |-> d],
               statement |-> [text |-> text, params |-> cp, positiontup |-> pos],
               params |-> ps] :
                text \in texts, cp \in CompiledParams(pos), ps \in ExtraParams } :
            pos \in Positions }

ValidSqlInputs ==
    SqlInputsOf("postgresql", PostgresqlTexts) \cup SqlInputsOf("sqlite", SqliteTexts)

\* log().format_sql(conn, statement, extra_params): every logger has the
\* method of BaseLogger, and it changes nothing of the logger
log_format_sql(t, c) ==
    LET res == format_sql(c.conn, c.statement, c.params)
    IN  /\ steps' = [steps EXCEPT ![t] = @ + 1]
        /\ last' = [task |-> t, op |-> "format_sql", fmt |-> "", ret |-> <<>>,
                    raised |-> res.raised, consumed |-> 0, invoked |-> 0,
                    offered |-> 0, callable |-> FALSE,
                    args |-> c, value |-> res.value]
        /\ ops' = Note(t, "format_sql")
        /\ UNCHANGED <<logger, fmt, discarded, CODE_HIGHLIGHT, sa_version>>

NextSql ==
    \/ \E f \in Formats : steps[1] < MaxSql /\ set_log_output(1, f)
    \/ \E c \in ValidSqlInputs : steps[1] < MaxSql /\ log_format_sql(1, c)
    \/ \E ev \in SqlCalls : steps[1] < MaxSql /\ log_call(1, ev)

SpecSql == Init /\ [][NextSql]_vars

---------------------------------------------------------------------------
(* Properties of format_sql.                                               *)

\* the names that statements and parameters use
SqlNames == {"id", "b"}

\* the tokens of a text
Tokens(text) == { text[i] : i \in DOMAIN text }

\* how many tokens of a text are in the set toks
Count(text, toks) == Cardinality({ i \in DOMAIN text : text[i] \in toks })

\* the names of the working map of format_sql for the arguments c
WorkingNames(c) ==
    DOMAIN c.statement.params
        \cup (IF c.params.kind \in {"mapping", "sequence"} /\ c.params.maps # <<>>
              THEN DOMAIN c.params.maps[1] ELSE {})

\* the names that the statement text or its position order has and the
\* working map lacks
MissingNames(c) ==
    { n \in SqlNames :
        /\ n \notin WorkingNames(c)
        /\ \/ n \in Tokens(c.statement.positiontup)
           \/ \E i \in DOMAIN c.statement.text :
                 /\ c.statement.text[i] \in {"%(", "__[POSTCOMPILE_"}
                 /\ c.statement.text[i + 1] = n }

\* the placeholders of the text that take a value by position
Markers(c) ==
    Count(c.statement.text,
          IF c.conn.dialect = "sqlite" THEN {"?", "__[POSTCOMPILE_"}
          ELSE {"%s", "__[POSTCOMPILE_"})

\* C11 as claimed: format_sql returns a text and raises nothing, for
\* postgresql and sqlite and for extra_params None, a mapping or a
\* sequence of mappings; a placeholder whose name the parameters lack is
\* rendered as None.
C11_Original ==
    last.op = "format_sql" =>
        /\ last.raised = ""
        /\ MissingNames(last.args) # {} /\ Markers(last.args) > 0
              => "None" \in Tokens(last.value)

\* C12 as claimed: when the text has more placeholders than the position
\* order gives values, format_sql raises nothing and returns the text of
\* the compiled statement unchanged, for postgresql with SQLAlchemy 1 and
\* 2 and for sqlite.
C12_Original ==
    last.op = "format_sql" /\ Markers(last.args) > Len(last.args.statement.positiontup) =>
        /\ last.raised = ""
        /\ last.value = last.args.statement.text

\* C13 as claimed: what format_sql returns for sqlite has no named
\* placeholder (':' and a name), for extra_params None, a mapping or a
\* sequence of mappings.
C13_Original ==
    last.op = "format_sql" /\ last.args.conn.dialect = "sqlite" /\ last.raised = "" =>
        \A n \in SqlNames : (":" \o n) \notin Tokens(last.value)

\* C14 as claimed: for postgresql, with SQLAlchemy 1 and 2, a percent sign
\* of the text that belongs to no format specifier is never taken for a
\* format specifier by the final substitution, and it is in the text
\* returned as the percent sign it was.
C14_Original ==
    last.op = "format_sql" /\ last.args.conn.dialect = "postgresql"
        /\ "%" \in Tokens(last.args.statement.text) =>
            /\ last.raised # "ValueError"
            /\ last.raised = "" => "%" \in Tokens(last.value)

\* the value that the working map of format_sql has for name n
WorkingValue(c, n) ==
    IF c.params.kind = "sequence" /\ c.params.maps # <<>> /\ n \in DOMAIN c.params.maps[1]
    THEN PyStr(<<":" \o n>>)
    ELSE IF c.params.kind = "mapping" /\ n \in DOMAIN c.params.maps[1]
    THEN LET v == c.params.maps[1][n]
         IN  CASE v.type = "geom" -> PyStr(v.wkt)
               [] v.type \in {"int", "float"} -> v
               [] OTHER -> PyStr(str(v))
    ELSE IF n \in DOMAIN c.statement.params THEN c.statement.params[n]
    ELSE PyNone

\* the text that sqlite is to give: token i of the statement text is a
\* marker (a question mark or the start of a postcompile marker), part of
\* a postcompile marker, or text that stays
ExpectedSqlite(c) ==
    LET text == c.statement.text
        IsMarker(i) == text[i] \in {"?", "__[POSTCOMPILE_"}
        InMarker(i) == \/ i > 1 /\ text[i - 1] = "__[POSTCOMPILE_"
                       \/ i > 2 /\ text[i - 2] = "__[POSTCOMPILE_"
        K(i) == Cardinality({ j \in 1..i : IsMarker(j) })
    IN  Flatten([i \in DOMAIN text |->
                    IF IsMarker(i)
                    THEN repr(WorkingValue(c, c.statement.positiontup[K(i)]))
                    ELSE IF InMarker(i) THEN <<>>
                    ELSE <<text[i]>>])

\* log().sql(conn, statement, {'id': 5}) for the sqlite statement
\* 'SELECT * FROM t WHERE id = ?' with position order ('id',)
ExampleSql ==
    [NoArgs EXCEPT !.op = "sql", !.conn = [dialect |-> "sqlite"],
                   !.statement = Compiled(<<"SELECT * FROM t WHERE id = ", "?">>, <<"id">>),
                   !.params = [kind |-> "mapping", maps |-> << ("id" :> PyInt("5")) >>]]

\* the tokens of a text as one string
RECURSIVE Cat(_)
Cat(text) == IF text = <<>> THEN "" ELSE Head(text) \o Cat(Tail(text))

\* C15: for sqlite, when the position order has a name for every marker,
\* each postcompile marker counts as one question mark and the k-th
\* question mark from the left is replaced by the repr of the value that
\* the working map has for the k-th name of the position order (None when
\* it has none); the values put in are not searched for question marks.
\* TextLogger.sql for 'SELECT * FROM t WHERE id = ?', {'id': 5} and the
\* position order ('id',) writes '| SELECT * FROM t WHERE id = 5'.
C15_SqliteSubstitution ==
    [][/\ last'.op = "format_sql" /\ last'.args.conn.dialect = "sqlite"
            /\ Markers(last'.args) <= Len(last'.args.statement.positiontup)
          => /\ last'.raised = ""
             /\ last'.value = ExpectedSqlite(last'.args)
       /\ log_call(1, ExampleSql) /\ logger[1].cls = "TextLogger"
          => /\ last'.raised = ""
             /\ Len(NewChunks(1)) = 2
             /\ Cat(NewChunks(1)[2].text) = "| SELECT * FROM t WHERE id = 5\n\n"]_vars

\* two markers, a question mark and a postcompile marker, took the values
\* of the names b and id in this order; the value of id is the text '?'
\* and is in the result as it is
C15_Witness ==
    /\ last.op = "format_sql" /\ last.args.conn.dialect = "sqlite" /\ last.raised = ""
    /\ last.args.statement.positiontup = <<"b", "id">>
    /\ \E i \in DOMAIN last.args.statement.text : last.args.statement.text[i] = "__[POSTCOMPILE_"
    /\ Cat(last.value) = "SELECT '<O>' WHERE id IN ('?')"

---------------------------------------------------------------------------
(* Properties of table_dump, result_dump and var_dump.                     *)

\* the row sequence has no row, or its first row is None or empty
BadHeader(rows) == rows = <<>> \/ rows[1].none \/ rows[1].cells = <<>>

\* the rows after the header that are lists
DataRows(rows) == SelectSeq(Tail(rows), LAMBDA row : ~row.none)

\* the chunk is tag, text, closing tag
IsTag(chunk, tag) == chunk.text # <<>> /\ chunk.text[1] = tag

\* the text between the tags of a chunk
Inner(chunk) == SubSeq(chunk.text, 2, Len(chunk.text) - 1)

\* the places of chunks where the chunk is the text
Places(chunks, text) == { i \in DOMAIN chunks : chunks[i].text = text }

\* the k-th smallest number of S
Kth(S, k) == CHOOSE x \in S : Cardinality({ y \in S : y <= x }) = k

\* C16 as claimed: table_dump of a HTMLLogger and of a TextLogger, given
\* an iterator with no row or with a first row that is None or empty,
\* raises AssertionError, which reaches the caller.
C16_Original ==
    [][\A ev \in TableDumpCalls :
          log_call(1, ev) /\ logger[1].cls # "BaseLogger" /\ BadHeader(ev.rows)
              => last'.raised = "AssertionError"]_vars

\* C17: table_dump of a HTMLLogger, given a header and rows, writes every
\* header cell in order in a <th>, then for every row that is a list, in
\* order, <tr>, its cells in order in a <td> each, </tr>; there are as
\* many <tr> in the body as rows that are lists (the header and None do
\* not count).
C17_MarkupTable ==
    [][\A ev \in TableDumpCalls :
          log_call(1, ev) /\ logger[1].cls = "HTMLLogger" /\ ~BadHeader(ev.rows) =>
              LET new == NewChunks(1)
                  head == ev.rows[1].cells
                  data == DataRows(ev.rows)
                  th == SelectSeq(new, LAMBDA c : IsTag(c, "<th>"))
                  td == SelectSeq(new, LAMBDA c : IsTag(c, "<td>"))
                  open == Places(new, <<"<tr>">>)
                  close == Places(new, <<"</tr>">>)
                  body == Kth(Places(new, <<"</tr></thead><tbody>">>), 1)
              IN  /\ last'.raised = ""
                  /\ [i \in DOMAIN th |-> Inner(th[i])] = [i \in DOMAIN head |-> str(head[i])]
                  /\ \A i \in DOMAIN new : IsTag(new[i], "<th>") => i < body
                  /\ [i \in DOMAIN td |-> Inner(td[i])]
                        = Flatten([k \in DOMAIN data |->
                                     [i \in DOMAIN data[k].cells |-> str(data[k].cells[i])]])
                  /\ Cardinality(open) = Len(data) /\ Cardinality(close) = Len(data)
                  /\ \A k \in DOMAIN data :
                        /\ body < Kth(open, k)
                        /\ Kth(close, k) = Kth(open, k) + Len(data[k].cells) + 1
                        /\ \A i \in (Kth(open, k) + 1)..(Kth(close, k) - 1) :
                              IsTag(new[i], "<td>")
                  /\ new[Len(new)].text = <<"</tbody></table>">>]_vars

\* table_dump of the header [a, b] and the rows [1, 2], [3, 4] on a
\* HTMLLogger: two <th>, two <tr> and four <td> are in the buffer
C17_Witness ==
    /\ logger[1].cls = "HTMLLogger" /\ steps[1] = 2
    /\ last.op = "table_dump" /\ last.raised = "" /\ last.offered = 3
    /\ Cardinality(Places(logger[1].buffer, <<"<tr>">>)) = 2
    /\ Cardinality(Places(logger[1].buffer, <<"<td>", "3", "</td>">>)) = 1
    /\ Cardinality(Places(logger[1].buffer, <<"<th>", "b", "</th>">>)) = 1
    /\ Len(SelectSeq(logger[1].buffer, LAMBDA c : IsTag(c, "<td>"))) = 4

\* every row that is a list has a cell for every column of the header
FullRows(rows) ==
    \A k \in DOMAIN rows : rows[k].none \/ rows[k].cells = <<>>
                              \/ Len(rows[k].cells) >= Len(rows[1].cells)

\* a line of dashes, as TextLogger.table_dump writes it
IsLine(chunk) ==
    /\ Len(chunk.text) = 2 /\ chunk.text[2] = "\n"
    /\ chunk.text[1] = Rep("-", Len(chunk.text[1])) /\ Len(chunk.text[1]) > 0

\* the number of chunks that HTMLLogger.table_dump writes for the header
\* and the rows that are lists: timestamp, table head, header cells, end
\* of the head, per row <tr>, cells, </tr>, and the end of the table
ChunksOfCells(rows) ==
    4 + Len(rows[1].cells)
      + Sum([k \in DOMAIN DataRows(rows) |-> Len(DataRows(rows)[k].cells) + 2])

\* the number of rows after the header that are None
Separators(rows) == Cardinality({ k \in DOMAIN rows : k > 1 /\ rows[k].none })

\* the text logger draws a line of dashes where the row is None, and a
\* row of cells where it is a list
TextSeparators(ev) ==
    log_call(1, ev) /\ logger[1].cls = "TextLogger"
        /\ ~BadHeader(ev.rows) /\ FullRows(ev.rows) =>
            LET new == NewChunks(1)
            IN  /\ last'.raised = ""
                /\ Len(new) >= Len(ev.rows) + 3
                /\ IsLine(new[2]) /\ ~IsLine(new[3]) /\ IsLine(new[4])
                /\ \A k \in 2..Len(ev.rows) :
                      IsLine(new[k + 3]) <=> (ev.rows[k].none \/ ev.rows[k].cells = <<>>)

\* C18 as claimed: table_dump of a HTMLLogger and of a TextLogger draws a
\* separator for every None that follows the header in the rows, at its
\* place between the rows before and after it.
C18_Original ==
    [][\A ev \in TableDumpCalls :
          /\ TextSeparators(ev)
          /\ log_call(1, ev) /\ logger[1].cls = "HTMLLogger" /\ ~BadHeader(ev.rows) =>
                Len(NewChunks(1)) >= ChunksOfCells(ev.rows) + Separators(ev.rows)]_vars

\* C18 amended: table_dump of a TextLogger draws a line of dashes for every
\* None that follows the header in the rows, at its place between the rows
\* before and after it; table_dump of a HTMLLogger skips a None and writes
\* nothing for it.
C18_Separators ==
    [][\A ev \in TableDumpCalls :
          /\ TextSeparators(ev)
          /\ log_call(1, ev) /\ logger[1].cls = "HTMLLogger" /\ ~BadHeader(ev.rows) =>
                Len(NewChunks(1)) = ChunksOfCells(ev.rows)]_vars

\* table_dump of header, row, None, row on a TextLogger: the heading, a
\* line, the header, a line, the row, a line for None, the row, a line
C18_Witness ==
    /\ logger[1].cls = "TextLogger" /\ steps[1] = 2
    /\ last.op = "table_dump" /\ last.raised = "" /\ last.offered = 4
    /\ Len(logger[1].buffer) = 8
    /\ IsLine(logger[1].buffer[6])
    /\ ~IsLine(logger[1].buffer[5]) /\ ~IsLine(logger[1].buffer[7])

\* the first chunk of the k-th result in the chunks that result_dump wrote:
\* timestamp, heading, six chunks per result, total
ItemChunk(chunks, k) == chunks[6 * k - 3]

\* C19: result_dump of a HTMLLogger and of a TextLogger writes one entry
\* per (rank, result) pair of the iterator, in its order, and then the
\* total, the number of pairs taken from the iterator; for an iterator
\* with no pair it writes no entry and the total 0 ('TOTAL: 0' in the
\* text, '<b>TOTAL:</b> 0' in the markup).
C19_ResultTotal ==
    [][\A ev \in ResultDumpCalls :
          log_call(1, ev) /\ logger[1].cls # "BaseLogger" =>
              LET new == NewChunks(1)
                  n == Len(ev.results)
                  html == logger[1].cls = "HTMLLogger"
              IN  /\ last'.raised = "" /\ last'.consumed = n
                  /\ Len(new) = 6 * n + 3
                  /\ \A k \in 1..n :
                        /\ ItemChunk(new, k).text[1] = (IF html THEN "<dt>[" ELSE "[")
                        /\ ItemChunk(new, k).text[2] = Fixed(ev.results[k].rank, 3, 1000)
                        /\ ItemChunk(new, k).text[4] = ev.results[k].res.source_table
                  /\ new[Len(new)].text =
                        (IF html THEN <<"</dl><b>TOTAL:</b> ", ToString(n), "</p>">>
                         ELSE <<"TOTAL: ", ToString(n), "\n\n">>)
                  /\ n = 0 => Cat(new[Len(new)].text)
                                 \in {"</dl><b>TOTAL:</b> 0</p>", "TOTAL: 0\n\n"}]_vars

\* result_dump of two results on a HTMLLogger: ranks 1.250 and 2.000 in
\* this order, then the total 2
C19_Witness ==
    /\ logger[1].cls = "HTMLLogger" /\ steps[1] = 2
    /\ last.op = "result_dump" /\ last.raised = "" /\ last.consumed = 2
    /\ Len(logger[1].buffer) = 15
    /\ ItemChunk(logger[1].buffer, 1).text[2] = "1.250"
    /\ ItemChunk(logger[1].buffer, 2).text[2] = "2.000"
    /\ Cat(logger[1].buffer[15].text) = "</dl><b>TOTAL:</b> 2</p>"

\* C20: var_dump of a HTMLLogger and of a TextLogger calls a callable
\* value once, with no arguments, and writes what it returned under the
\* heading; a value that is not callable is written as it is and nothing
\* is called.
C20_VarDumpCallable ==
    [][\A ev \in VarDumpCalls :
          log_call(1, ev) /\ logger[1].cls # "BaseLogger" =>
              LET new == NewChunks(1)
                  shown == _python_var(logger[1], ev.var.value)
              IN  /\ last'.raised = ""
                  /\ last'.invoked = (IF ev.var.callable THEN 1 ELSE 0)
                  /\ new # <<>>
                  /\ new[Len(new)].text =
                        (IF logger[1].cls = "HTMLLogger"
                         THEN <<"<h5>", ev.heading, "</h5>">> \o shown
                         ELSE <<ev.heading, ":\n  ">> \o shown \o <<"\n\n">>)]_vars

\* var_dump of a callable that returns '<x>' on a TextLogger: called once,
\* and '<x>' is in the buffer
C20_Witness ==
    /\ logger[1].cls = "TextLogger" /\ steps[1] = 2
    /\ last.op = "var_dump" /\ last.callable /\ last.invoked = 1
    /\ Len(logger[1].buffer) = 1
    /\ Cat(logger[1].buffer[1].text) = "v:\n  <x>\n\n"

---------------------------------------------------------------------------
(* Properties of the markup without pygments, and of get_buffer.           *)

\* the tokens of part are in text, in a row
Contains(text, part) ==
    \E k \in 0..(Len(text) - Len(part)) : SubSeq(text, k + 1, k + Len(part)) = part

\* all that the chunks hold, as one text
TextOf(chunks) == Flatten([i \in DOMAIN chunks |-> chunks[i].text])

\* the values that the call gives to be shown: the keyword arguments of
\* function, the value of var_dump
ShownValues(ev) ==
    CASE ev.op = "function" -> { ev.kwargs[i].value : i \in DOMAIN ev.kwargs }
      [] ev.op = "var_dump" -> { ev.var.value }
      [] OTHER -> {}

\* C21 as claimed: when pygments could not be imported (CODE_HIGHLIGHT is
\* False), function, var_dump and sql of a HTMLLogger return without
\* raising and write the value or the statement as text escaped for HTML;
\* with and without pygments the value is in the output.
C21_Original ==
    [][\A ev \in FunctionCalls \cup VarDumpCalls \cup SqlCalls :
          log_call(1, ev) /\ logger[1].cls = "HTMLLogger" =>
              LET out == TextOf(NewChunks(1))
                  sqlstr == format_sql(ev.conn, ev.statement, ev.params)
              IN  /\ ~CODE_HIGHLIGHT => last'.raised = ""
                  /\ \A v \in ShownValues(ev) :
                        /\ Contains(out, html_escape(str(v)))
                        /\ ~CODE_HIGHLIGHT =>
                              Contains(out, <<"<code class=\"lang-python\">">>
                                            \o html_escape(str(v)) \o <<"</code>">>)
                  /\ ev.op = "sql" /\ sqlstr.raised = "" =>
                        /\ Contains(out, html_escape(sqlstr.value))
                        /\ ~CODE_HIGHLIGHT =>
                              Contains(out, <<"<code class=\"lang-sql\">">>
                                            \o html_escape(sqlstr.value) \o <<"</code>">>)]_vars

\* C22: get_buffer only reads. Of a HTMLLogger it returns HTML_HEADER, then
\* the buffer, then HTML_FOOTER; of a TextLogger the buffer as it is. The
\* buffer and the logger in the register stay as they were, and a second
\* get_buffer right after the first returns the same.
C22_GetBufferPureRead ==
    [][\A t \in Tasks : Step(t, "get_buffer") =>
          /\ logger' = logger
          /\ logger[t].cls = "HTMLLogger" =>
                /\ Len(last'.ret) = Len(logger[t].buffer) + 2
                /\ Head(last'.ret).text = HTML_HEADER
                /\ last'.ret[Len(last'.ret)].text = HTML_FOOTER
                /\ SubSeq(last'.ret, 2, Len(last'.ret) - 1) = logger[t].buffer
          /\ logger[t].cls = "TextLogger" => last'.ret = logger[t].buffer
          /\ last.task = t /\ last.op = "get_buffer" => last'.ret = last.ret]_vars

\* a task has read its markup twice in a row, after an event was logged
C22_Witness ==
    \E t \in Tasks :
        /\ ops[t][1] = "get_buffer" /\ ops[t][2] = "get_buffer" /\ ops[t][3] \in EventOps
        /\ last.task = t /\ last.op = "get_buffer"
        /\ logger[t].cls = "HTMLLogger" /\ logger[t].buffer # <<>>
        /\ Len(last.ret) = Len(logger[t].buffer) + 2

---------------------------------------------------------------------------
(* Properties of format_sql for postgresql and of the working map.         *)

\* the text that postgresql is to give: token i of the statement text is a
\* positional placeholder (a %s or the start of a postcompile marker), the
\* start of a named placeholder, part of a placeholder, or text that stays
ExpectedPostgresql(c) ==
    LET text == c.statement.text
        IsMarker(i) == text[i] \in {"%s", "__[POSTCOMPILE_"}
        IsNamed(i) == text[i] = "%("
        InPlaceholder(i) == \/ i > 1 /\ text[i - 1] \in {"__[POSTCOMPILE_", "%("}
                            \/ i > 2 /\ text[i - 2] \in {"__[POSTCOMPILE_", "%("}
        K(i) == Cardinality({ j \in 1..i : IsMarker(j) })
    IN  Flatten([i \in DOMAIN text |->
                    IF IsMarker(i)
                    THEN repr(WorkingValue(c, c.statement.positiontup[K(i)]))
                    ELSE IF IsNamed(i) THEN repr(WorkingValue(c, text[i + 1]))
                    ELSE IF InPlaceholder(i) THEN <<>>
                    ELSE <<text[i]>>])

\* the text without its percent signs, single or doubled
NoPercent(text) == SelectSeq(text, LAMBDA tok : tok \notin {"%", "%%"})

\* C23 as claimed: for postgresql, with SQLAlchemy 1 and with SQLAlchemy 2,
\* a postcompile marker counts as a format specifier, and every placeholder
\* is replaced, in the position order of the statement, by the repr of the
\* value that the working map has for its name, None when the map lacks
\* the name.  (Percent signs that belong to no placeholder are left out of
\* the comparison.)
C23_Original ==
    last.op = "format_sql" /\ last.args.conn.dialect = "postgresql"
        /\ "%" \notin Tokens(last.args.statement.text)
        /\ Markers(last.args) = Len(last.args.statement.positiontup) =>
            /\ last.raised = ""
            /\ NoPercent(last.value) = NoPercent(ExpectedPostgresql(last.args))

---------------------------------------------------------------------------
(* The order of taking rows and writing them.                              *)

\* the chunks that were written when exactly k elements had been taken
TakenAt(chunks, k) == SelectSeq(chunks, LAMBDA c : c.taken = k)

\* C24 as claimed: table_dump of a TextLogger writes the line of a row
\* before it takes the next row from the iterator: the header line is
\* written when one row has been taken, the line of row k when k have.
C24_Original ==
    [][\A ev \in TableDumpCalls :
          log_call(1, ev) /\ logger[1].cls = "TextLogger"
            /\ ~BadHeader(ev.rows) /\ FullRows(ev.rows) =>
              /\ last'.raised = ""
              /\ NewChunks(1)[3].taken = 1
              /\ \A k \in 2..Len(ev.rows) : NewChunks(1)[3 + k].taken = k]_vars

\* C24: table_dump of a HTMLLogger takes one row from the iterator, writes
\* it, and only then takes the next: the header cells are written when one
\* row has been taken and the cells of row k when k rows have.  table_dump
\* of a TextLogger writes the heading line, then takes every row from the
\* iterator (list(rows)), and writes all lines of the table after that.
C24_RowsTakenAndWritten ==
    [][\A ev \in TableDumpCalls :
          /\ log_call(1, ev) /\ logger[1].cls = "HTMLLogger" /\ ~BadHeader(ev.rows) =>
                LET new == NewChunks(1)
                    cells(k) == SelectSeq(TakenAt(new, k),
                                          LAMBDA c : IsTag(c, "<td>") \/ IsTag(c, "<th>"))
                IN  /\ last'.raised = "" /\ last'.consumed = Len(ev.rows)
                    /\ \A i \in DOMAIN new : i > 1 => new[i - 1].taken <= new[i].taken
                    /\ Len(TakenAt(new, 0)) = 1 /\ IsTimestamp(new[1])
                    /\ \A k \in DOMAIN ev.rows :
                          [i \in DOMAIN cells(k) |-> Inner(cells(k)[i])]
                              = [i \in DOMAIN ev.rows[k].cells |-> str(ev.rows[k].cells[i])]
          /\ log_call(1, ev) /\ logger[1].cls = "TextLogger" =>
                LET new == NewChunks(1)
                IN  /\ last'.consumed = Len(ev.rows)
                    /\ new[1].text = <<ev.heading, ":\n">> /\ new[1].taken = 0
                    /\ \A i \in DOMAIN new : i > 1 => new[i].taken = Len(ev.rows)
                    /\ ~BadHeader(ev.rows) /\ FullRows(ev.rows) =>
                          last'.raised = "" /\ Len(new) >= 3 + Len(ev.rows)]_vars

\* a TextLogger has written a table of four rows: the heading before it
\* took a row, the lines of the rows after it had taken all four
C24_Witness ==
    /\ logger[1].cls = "TextLogger" /\ steps[1] = 2
    /\ last.op = "table_dump" /\ last.raised = "" /\ last.consumed = 4
    /\ Len(logger[1].buffer) = 8
    /\ logger[1].buffer[1].taken = 0
    /\ \A i \in 2..8 : logger[1].buffer[i].taken = 4

\* extra_params is None or an empty sequence
Absent(c) == c.params.kind = "none" \/ (c.params.kind = "sequence" /\ c.params.maps = <<>>)

\* the text with every positional placeholder (a question mark, a %s or a
\* postcompile marker) replaced by the repr of val(name) for the name that
\* the position order has at the place of the placeholder
Positional(c, val(_)) ==
    LET text == c.statement.text
        IsMarker(i) == text[i] \in {"?", "%s", "__[POSTCOMPILE_"}
        InMarker(i) == \/ i > 1 /\ text[i - 1] = "__[POSTCOMPILE_"
                       \/ i > 2 /\ text[i - 2] = "__[POSTCOMPILE_"
        K(i) == Cardinality({ j \in 1..i : IsMarker(j) })
    IN  Flatten([i \in DOMAIN text |->
                    IF IsMarker(i) THEN repr(val(c.statement.positiontup[K(i)]))
                    ELSE IF InMarker(i) THEN <<>>
                    ELSE <<text[i]>>])

\* format_sql went through a substitution by position: sqlite, or postgresql
\* with SQLAlchemy 1, for a text with positional placeholders only, as many
\* as the position order has names
ByPosition(c) ==
    /\ c.conn.dialect = "sqlite" \/ (c.conn.dialect = "postgresql" /\ sa_version = "1")
    /\ "%(" \notin Tokens(c.statement.text)
    /\ Markers(c) = Len(c.statement.positiontup)

\* C25 as claimed: when extra_params is None or an empty sequence, the
\* working map of format_sql is empty, and every placeholder that the
\* position order names is rendered as None.
C25_Original ==
    last.op = "format_sql" /\ Absent(last.args) /\ ByPosition(last.args)
        /\ last.raised = "" =>
            NoPercent(last.value) = NoPercent(Positional(last.args, LAMBDA n : PyNone))

\* C25: when extra_params is None or an empty sequence, the working map of
\* format_sql is dict(compiled.params): where format_sql substitutes by
\* position and returns, a placeholder is rendered as the repr of the value
\* that the compiled statement has for its name, and as None when the
\* compiled statement has no value for the name or the value None.
C25_WorkingMapFromCompiled ==
    last.op = "format_sql" /\ Absent(last.args) /\ ByPosition(last.args)
        /\ last.raised = "" =>
            NoPercent(last.value)
                = NoPercent(Positional(last.args, LAMBDA n : Get(last.args.statement.params, n)))

\* without extra_params, the placeholder of b is rendered as None and the
\* one of id as the text 'x' of the compiled statement
C25_Witness ==
    /\ last.op = "format_sql" /\ last.args.params.kind = "none" /\ last.raised = ""
    /\ last.args.conn.dialect = "sqlite"
    /\ last.args.statement.positiontup = <<"b", "id">>
    /\ last.args.statement.params # EmptyMap
    /\ Cat(last.value) = "SELECT None WHERE id IN ('x')"

---------------------------------------------------------------------------
(* Properties of result_dump, and of the buffer over all methods.          *)

\* the chunk with the importance of entry k of result_dump
ImportanceChunk(chunks, k) == chunks[6 * k + 2]

\* C27 as claimed: result_dump shows the importance of every result that
\* has one, the importance 0 too; it shows nan (HTMLLogger) or -1
\* (TextLogger) only for a result whose importance is None.
C27_Original ==
    [][\A ev \in ResultDumpCalls :
          log_call(1, ev) /\ logger[1].cls # "BaseLogger" =>
              \A k \in DOMAIN ev.results :
                  LET imp == ev.results[k].res.importance
                      shown == ImportanceChunk(NewChunks(1), k).text
                  IN  /\ shown[1] = "importance="
                      /\ shown[2] = (IF ~imp.none THEN Fixed(imp.v, 5, 100000)
                                     ELSE IF logger[1].cls = "HTMLLogger" THEN "nan"
                                     ELSE Fixed(-100000, 5, 100000))]_vars

\* C28: every call of a method of a HTMLLogger or TextLogger, also one that
\* raises, and every get_buffer leaves the logger in place and its buffer
\* as it was, with what the call wrote after it; so the chunks of a buffer
\* are in the order of the calls that wrote them.
C28_BufferAppendOnly ==
    [][(EventStep(1) \/ Step(1, "get_buffer")) /\ logger[1].cls # "BaseLogger" =>
          LET old == logger[1].buffer
              new == logger'[1].buffer
          IN  /\ logger'[1].id = logger[1].id /\ logger'[1].cls = logger[1].cls
              /\ Len(new) >= Len(old)
              /\ SubSeq(new, 1, Len(old)) = old
              /\ \A i \in DOMAIN new : i > Len(old) => new[i].src = <<1, steps'[1]>>
              /\ \A i, j \in DOMAIN new : i <= j => new[i].src[2] <= new[j].src[2]]_vars

\* a table_dump that raised has left its first piece after the text of the
\* comment before it
C28_Witness ==
    /\ logger[1].cls \in {"HTMLLogger", "TextLogger"} /\ steps[1] = 3
    /\ ops[1] = <<"table_dump", "comment", "set_log_output">>
    /\ last.op = "table_dump" /\ last.raised # ""
    /\ Len(logger[1].buffer) >= 2
    /\ logger[1].buffer[1].src = <<1, 2>>
    /\ logger[1].buffer[Len(logger[1].buffer)].src = <<1, 3>>

---------------------------------------------------------------------------
(* From set_log_output to get_and_disable.                                 *)

\* a logger of the same class with nothing written yet
Fresh(sink) == [sink EXCEPT !.buffer = <<>>]

\* C29: from set_log_output('html' or 'text') to the next set_log_output
\* or get_and_disable of the same task, log() gives the same logger object
\* whatever the task and the other tasks call; every logging call appends
\* to its buffer exactly what the call writes on a fresh logger, get_buffer
\* appends nothing; and get_and_disable returns the buffer (inside
\* HTML_HEADER and HTML_FOOTER for a HTMLLogger), whose chunks are those
\* of the logging calls of the task since set_log_output, in their order.
C29_IntervalTranscript ==
    [][\A t \in Tasks :
          /\ steps'[t] # steps[t] => \A u \in Tasks \ {t} : logger'[u] = logger[u]
          /\ EventStep(t) \/ Step(t, "get_buffer") =>
                logger'[t].id = logger[t].id /\ logger'[t].cls = logger[t].cls
          /\ Step(t, "get_buffer") => logger'[t].buffer = logger[t].buffer
          /\ \A ev \in SimpleCalls :
                log_call(t, ev) /\ logger[t].cls # "BaseLogger" =>
                    LET text == Call(Fresh(logger[t]), ev, Event(t)).self.buffer
                    IN  text # <<>> /\ logger'[t].buffer = logger[t].buffer \o text
          /\ Step(t, "get_and_disable") /\ logger[t].cls # "BaseLogger" =>
                LET buf == logger[t].buffer
                    since == logger[t].id[2]
                IN  /\ logger[t].cls = "HTMLLogger" =>
                          /\ Len(last'.ret) = Len(buf) + 2
                          /\ last'.ret[1].text = HTML_HEADER
                          /\ last'.ret[Len(buf) + 2].text = HTML_FOOTER
                          /\ SubSeq(last'.ret, 2, Len(buf) + 1) = buf
                    /\ logger[t].cls = "TextLogger" => last'.ret = buf
                    /\ \A i \in DOMAIN buf :
                          /\ buf[i].src[1] = t
                          /\ buf[i].src[2] > since /\ buf[i].src[2] <= steps[t]
                    /\ \A i, j \in DOMAIN buf : i <= j => buf[i].src[2] <= buf[j].src[2]
                    /\ \A d \in 1..3 :
                          steps[t] - d + 1 > since =>
                              ((\E i \in DOMAIN buf : buf[i].src = <<t, steps[t] - d + 1>>)
                                  <=> ops[t][d] \in EventOps)]_vars

\* a task has set a HTMLLogger, logged twice and called get_and_disable,
\* while the other task has set a logger of its own
C29_Witness ==
    \E t \in Tasks :
        /\ last.task = t /\ last.op = "get_and_disable" /\ steps[t] = 4
        /\ ops[t][1] = "get_and_disable" /\ ops[t][2] \in EventOps /\ ops[t][3] \in EventOps
        /\ Len(last.ret) >= 4
        /\ last.ret[1].text = HTML_HEADER
        /\ last.ret[2].src = <<t, 2>> /\ last.ret[Len(last.ret) - 1].src = <<t, 3>>
        /\ \E u \in Tasks \ {t} : steps[u] = 1 /\ logger[u].cls # "BaseLogger"

\* C30: a table_dump that raises on an iterator with no row, or with a
\* first row that is None or empty, leaves in the buffer what it wrote
\* before (the timestamp of a HTMLLogger, the heading line of a
\* TextLogger) after the text that was there; the logger of the task is
\* the same object, and the next logging call appends after that piece.
C30_NoRollback ==
    [][/\ \A ev \in TableDumpCalls :
            log_call(1, ev) /\ logger[1].cls # "BaseLogger" /\ BadHeader(ev.rows) =>
                /\ last'.raised # ""
                /\ logger'[1].id = logger[1].id /\ logger'[1].cls = logger[1].cls
                /\ Len(logger'[1].buffer) = Len(logger[1].buffer) + 1
                /\ SubSeq(logger'[1].buffer, 1, Len(logger[1].buffer)) = logger[1].buffer
                /\ NewChunks(1)[1].src = <<1, steps'[1]>>
                /\ NewChunks(1)[1].text =
                      (IF logger[1].cls = "HTMLLogger"
                       THEN <<"<p class=\"timestamp\">[", "now", "]</p>">>
                       ELSE <<ev.heading, ":\n">>)
       /\ \A ev \in AllCalls :
            log_call(1, ev) /\ logger[1].cls # "BaseLogger"
              /\ last.op = "table_dump" /\ last.raised # "" /\ last.offered <= 1 =>
                /\ logger[1].buffer # <<>>
                /\ logger[1].buffer[Len(logger[1].buffer)].src = <<1, steps[1]>>
                /\ Len(logger'[1].buffer) > Len(logger[1].buffer)
                /\ SubSeq(logger'[1].buffer, 1, Len(logger[1].buffer)) = logger[1].buffer]_vars

\* a TextLogger holds the heading line of a table_dump that raised, and
\* after it the line of a later comment
C30_Witness ==
    /\ logger[1].cls = "TextLogger" /\ steps[1] = 3
    /\ ops[1] = <<"comment", "table_dump", "set_log_output">>
    /\ Len(logger[1].buffer) = 2
    /\ logger[1].buffer[1].text = <<"t", ":\n">> /\ logger[1].buffer[1].src = <<1, 2>>
    /\ logger[1].buffer[2].src = <<1, 3>>

===========================================================================
